---- MODULE Spec2Model ----
(***************************************************************************)
(* Model of theine-core: the cache facade TlfuCore (core.rs) over the      *)
(* TinyLfu policy (tlfu.rs), the window Lru / main Slru lists (lru.rs,     *)
(* metadata.rs), the count-min sketch (sketch.rs) and the hierarchical     *)
(* timer wheel (timerwheel.rs).                                            *)
(*                                                                         *)
(* Representation choices                                                  *)
(*  - A u64 nanosecond time t is the pair <<t >> 30, t & (2^30 - 1)>>, so  *)
(*    that every value stays inside TLC's integers; every shift of the     *)
(*    wheel is >= 30 and acts on the first component only.                 *)
(*  - A dlv_list node is [key, live].  An Index handed out by the list is  *)
(*    never reused, so the only thing that matters about a node is whether *)
(*    it is the node the entry of its key points at (live) or a node no    *)
(*    entry points at any more (stale: its entry was dropped, or re-linked *)
(*    to another node).  Option<Index> on an entry is a BOOLEAN.           *)
(*  - Option<u64> uses None == -1, a value no key takes.                   *)
(***************************************************************************)
EXTENDS Integers, Sequences, FiniteSets, TLC

\* ------------------------------------------------------------------ bounds
MaxKey == 3
MaxCap == 2
MaxBatch == 2
MaxOps == 4
MaxTick == 1
MaxNs == 1
LargeCap == 200
FillChunk == 25
LargeOps == 2

Keys == 1..MaxKey
Capacities == 1..MaxCap
None == 0 - 1

Min(a, b) == IF a < b THEN a ELSE b
Max(a, b) == IF a > b THEN a ELSE b

Pow2(n) == 2 ^ n

\* -------------------------------------------------------------------- time
LoBits == 30
LoSize == Pow2(LoBits)
Zero == <<0, 0>>
Ns(n) == <<0, n>>
Ticks(n) == <<n, 0>>
TAdd(a, b) ==
    LET lo == a[2] + b[2]
    IN  IF lo >= LoSize THEN <<a[1] + b[1] + 1, lo - LoSize>> ELSE <<a[1] + b[1], lo>>
TLe(a, b) == a[1] < b[1] \/ (a[1] = b[1] /\ a[2] <= b[2])
TLt(a, b) == a[1] < b[1] \/ (a[1] = b[1] /\ a[2] < b[2])
\* u64::saturating_sub
TSatSub(a, b) ==
    IF TLe(a, b) THEN Zero
    ELSE IF a[2] >= b[2] THEN <<a[1] - b[1], a[2] - b[2]>>
         ELSE <<a[1] - b[1] - 1, a[2] + LoSize - b[2]>>
\* t >> s for s >= LoBits
Shr(t, s) == t[1] \div Pow2(s - LoBits)

\* Clock::expire_ns with the clock reading `now`
expire_ns(now, ttl) == IF ttl # Zero THEN TAdd(now, ttl) ELSE Zero

\* ------------------------------------------------------------------ sketch
\* 64-bit words are handled as 16-bit limbs, least significant first.
Limb == Pow2(16)
RehashMul == <<4587, 4913, 18875, 38096>>   \* 0x94d049bb133111eb

\* bitwise exclusive or of the low n bits of a and b, the low half of the bits
\* and the high half apart
RECURSIVE Xor(_, _, _)
Xor(a, b, n) ==
    IF n = 0 THEN 0
    ELSE IF n = 1 THEN (a + b) % 2
    ELSE Xor(a % Pow2(n \div 2), b % Pow2(n \div 2), n \div 2)
         + Pow2(n \div 2) * Xor((a \div Pow2(n \div 2)) % Pow2(n - (n \div 2)),
                                 (b \div Pow2(n \div 2)) % Pow2(n - (n \div 2)), n - (n \div 2))

\* low 32 bits of rehash(h), as two limbs, for h < 2^14
rehash(h) ==
    LET t0 == h * RehashMul[1]
        t1 == h * RehashMul[2] + (t0 \div Limb)
        t2 == h * RehashMul[3] + (t1 \div Limb)
        t3 == h * RehashMul[4] + (t2 \div Limb)
        m0 == t0 % Limb
        m1 == t1 % Limb
        m2 == t2 % Limb
        m3 == t3 % Limb
        \* bits 31..46 and 47..62 of the product: (m >> 31)
        s0 == (m1 \div 32768) + 2 * (m2 % 32768)
        s1 == (m2 \div 32768) + 2 * (m3 % 32768)
    IN  <<Xor(m0, s0, 16), Xor(m1, s1, 16)>>

\* CountMinSketch::new: counter_size for a requested size
counter_size(size) ==
    LET s == Max(size, 64)
    IN  CHOOSE p \in {Pow2(i) : i \in 6..20} : p >= s /\ p \div 2 < s

\* CountMinSketch::index_of: <<word index, 4-bit counter in the word>>
index_of(counter_hash, block, offset) ==
    LET limb == counter_hash[(offset \div 2) + 1]
        byte == IF offset % 2 = 0 THEN limb % 256 ELSE limb \div 256
    IN  <<block + (byte % 2) + 2 * offset, (byte \div 2) % 16>>

\* the four counters of hash h in a sketch with the given block mask
Hashes == 0..255
Rehashed == [h \in Hashes |-> rehash(h)]
CountersAt(counter_hash, block) ==
    <<index_of(counter_hash, block, 0), index_of(counter_hash, block, 1),
      index_of(counter_hash, block, 2), index_of(counter_hash, block, 3)>>
Counters(block_mask, h) ==
    CountersAt(IF h \in Hashes THEN Rehashed[h] ELSE rehash(h), (h % (block_mask + 1)) * 8)

\* table: counters that were touched |-> value; an untouched counter is 0
count(table, pos) == IF pos \in DOMAIN table THEN table[pos] ELSE 0

\* CountMinSketch::estimate
EstimateAt(table, c) ==
    Min(Min(count(table, c[1]), count(table, c[2])),
        Min(count(table, c[3]), count(table, c[4])))
estimate(sk, h) == EstimateAt(sk.table, Counters(sk.block_mask, h))

\* u64::saturating_add(1 << (4 * offset)) on the word of pos: a counter at 15
\* wraps to 0 and carries into the next counter of the word; a carry out of the
\* last counter saturates the word
FullWord(table, index) == [q \in {index} \X (0..15) |-> 15] @@ table
RECURSIVE WordAdd(_, _)
WordAdd(table, pos) ==
    IF pos[2] > 15 THEN FullWord(table, pos[1])
    ELSE IF count(table, pos) = 15
    THEN WordAdd((pos :> 0) @@ table, <<pos[1], pos[2] + 1>>)
    ELSE (pos :> (count(table, pos) + 1)) @@ table

\* CountMinSketch::inc on one counter: table[index] & mask != mask, then the add
IncUnmasked(table, pos) == WordAdd(table, pos)
inc(table, pos) ==
    IF count(table, pos) # 15
    THEN WordAdd(table, pos)
    ELSE table

\* CountMinSketch::reset: halve every counter, additions -= odd >> 2, then halve
\* (word >> 1) & RESET_MASK on one counter: the low bit of the next counter of
\* the word is shifted in on top and masked away
ShiftedIn(table, q) == IF q[2] < 15 THEN count(table, <<q[1], q[2] + 1>>) % 2 ELSE 0
HalveUnmasked(table, q) == (table[q] \div 2) + 8 * ShiftedIn(table, q)
Halve(table, q) == ((table[q] \div 2) + 8 * ShiftedIn(table, q)) % 8
reset(sk) ==
    LET odd == Cardinality({q \in DOMAIN sk.table : sk.table[q] % 2 = 1})
    IN  [sk EXCEPT !.table = [q \in DOMAIN sk.table |-> Halve(sk.table, q)],
                   !.additions = Max(sk.additions - (odd \div 4), 0) \div 2]

\* CountMinSketch::add
IncAll(table, c) == inc(inc(inc(inc(table, c[1]), c[2]), c[3]), c[4])
Sampled(sk) == IF sk.additions >= sk.sample_size THEN reset(sk) ELSE sk
Added(sk, table) ==
    IF table # sk.table
    THEN Sampled([sk EXCEPT !.table = table, !.additions = @ + 1])
    ELSE sk
add(sk, h) == Added(sk, IncAll(sk.table, Counters(sk.block_mask, h)))

EmptyFn == [q \in {} |-> 0]

\* CountMinSketch::new
NewSketch(size) ==
    LET cs == counter_size(size)
    IN  [block_mask |-> (cs \div 8) - 1, table |-> EmptyFn, additions |-> 0,
         sample_size |-> cs * 10]

\* ------------------------------------------------------- metadata.rs: List
\* front of the list = element 1, tail = last element
Node(k) == [key |-> k, live |-> TRUE]
InsertBack(list, k) == list \o <<Node(k)>>
insert_front(list, k) == <<Node(k)>> \o list
tail(list) == IF list = <<>> THEN None ELSE list[Len(list)].key
pop_tail(list) == SubSeq(list, 1, Len(list) - 1)
RemoveAt(list, i) == SubSeq(list, 1, i - 1) \o SubSeq(list, i + 1, Len(list))
\* position of the node the entry of k points at, 0 when that node is gone
LivePos(list, k) ==
    IF \E i \in 1..Len(list) : list[i].key = k /\ list[i].live
    THEN CHOOSE i \in 1..Len(list) : list[i].key = k /\ list[i].live
    ELSE 0
\* List::remove(index): a stale index is tolerated
list_remove(list, k) == IF LivePos(list, k) = 0 THEN list ELSE RemoveAt(list, LivePos(list, k))
TouchKeep(list, k) == list
\* List::touch(index): move to the front unless already there
touch(list, k) ==
    LET i == LivePos(list, k)
    IN  IF i <= 1 THEN list ELSE <<list[i]>> \o RemoveAt(list, i)
\* List::prev(index): the value in front of the node, None at the front
prev(list, k) ==
    LET i == LivePos(list, k)
    IN  IF i <= 1 THEN None ELSE list[i - 1].key
\* the nodes of k stop being the node its entry points at
Unlink(list, k) ==
    IF list = <<>> THEN <<>>
    ELSE [i \in 1..Len(list) |-> IF list[i].key = k THEN [list[i] EXCEPT !.live = FALSE] ELSE list[i]]
KeysOf(list) == {list[i].key : i \in 1..Len(list)}

\* Entry::new
NewEntry ==
    [policy_list_id |-> 0, policy_list_index |-> FALSE, wheel_list_index |-> FALSE,
     wheel_index |-> <<0, 0>>, expire |-> Zero]

\* ------------------------------------------------------ lru.rs: Lru, Slru
\* An operator on the cache takes and returns c = [policy, wheel, entries];
\* `entries` is the HashMap the facade lends to the policy and the wheel.
UnlinkAll(c, key) ==
    [c EXCEPT !.policy.window = Unlink(@, key),
              !.policy.probation = Unlink(@, key),
              !.policy.protected = Unlink(@, key)]

\* Lru::insert: push to the window front, record index and list id 1
LruInsert(c, key) ==
    LET d == UnlinkAll(c, key)
    IN  [d EXCEPT !.policy.window = insert_front(@, key),
                  !.entries[key].policy_list_index = TRUE,
                  !.entries[key].policy_list_id = 1]

\* Slru::insert: push to the probation front, record index and list id 2
SlruInsert(c, key) ==
    LET d == UnlinkAll(c, key)
    IN  [d EXCEPT !.policy.probation = insert_front(@, key),
                  !.entries[key].policy_list_index = TRUE,
                  !.entries[key].policy_list_id = 2]

LruRemoveUnchecked(p, e, key) ==
    [policy |-> [p EXCEPT !.window = list_remove(@, key)], ok |-> TRUE]
\* Lru::remove(entry): Err when the index is missing
LruRemove(p, e, key) ==
    IF ~e.policy_list_index THEN [policy |-> p, ok |-> FALSE]
    ELSE [policy |-> [p EXCEPT !.window = list_remove(@, key)], ok |-> TRUE]

\* Slru::remove(entry): Err when the index is missing or the id is not 2 or 3
SlruRemove(p, e, key) ==
    IF ~e.policy_list_index THEN [policy |-> p, ok |-> FALSE]
    ELSE IF e.policy_list_id = 2
         THEN [policy |-> [p EXCEPT !.probation = list_remove(@, key)], ok |-> TRUE]
    ELSE IF e.policy_list_id = 3
         THEN [policy |-> [p EXCEPT !.protected = list_remove(@, key)], ok |-> TRUE]
    ELSE [policy |-> p, ok |-> FALSE]

\* VecList::capacity() of the protected list after it came to hold len nodes:
\* the backing Vec starts at the list capacity and doubles (to at least 4)
VecGrow(alloc, len) == IF len > alloc THEN Max(Max(2 * alloc, len), 4) ELSE alloc

\* Slru::access -> handle_access: promote from probation, touch in protected
SlruAccess(c, key) ==
    IF key \notin DOMAIN c.entries THEN [c |-> c, ok |-> FALSE]
    ELSE LET e == c.entries[key]
         IN  IF e.policy_list_id = 2
             THEN IF ~e.policy_list_index THEN [c |-> c, ok |-> FALSE]
                  ELSE [c |-> [c EXCEPT !.policy.probation = list_remove(@, key),
                                           !.policy.protected = insert_front(@, key),
                                           !.policy.protected_alloc =
                                               VecGrow(@, Len(c.policy.protected) + 1),
                                           !.entries[key].policy_list_id = 3],
                        ok |-> TRUE]
             ELSE IF e.policy_list_id = 3
             THEN IF ~e.policy_list_index THEN [c |-> c, ok |-> FALSE]
                  ELSE [c |-> [c EXCEPT !.policy.protected = touch(@, key)], ok |-> TRUE]
             ELSE [c |-> c, ok |-> FALSE]

\* Lru::new / Slru::new / List::new capacities
ListCap(capacity) == IF capacity = 0 THEN 1 ELSE capacity
LruCap(maxsize) == ListCap(Max(maxsize, 1))
SlruProbationCap(maxsize) == ListCap(Max(maxsize, 1))
SlruProtectedCap(maxsize) == ListCap((Max(maxsize, 1) * 8) \div 10)

\* ---------------------------------------------------------- tlfu.rs: TinyLfu
ADMIT_HASHDOS_THRESHOLD == 6

\* TinyLfu::new; step is the rational -capacity * 0.0625, hr the rational 0
NewTinyLfu(size) ==
    LET capacity == IF size = 0 THEN 1 ELSE size
        lru_size == IF capacity \div 100 = 0 THEN 1 ELSE capacity \div 100
        slru_size == capacity - lru_size
    IN  [size |-> 0, capacity |-> capacity,
         window |-> <<>>, window_cap |-> LruCap(lru_size),
         probation |-> <<>>, probation_cap |-> SlruProbationCap(slru_size),
         protected |-> <<>>, protected_cap |-> SlruProtectedCap(slru_size),
         protected_alloc |-> SlruProtectedCap(slru_size),
         sketch |-> NewSketch(capacity),
         hit_in_sample |-> 0, misses_in_sample |-> 0,
         hr |-> <<0, 1>>, step |-> <<0 - capacity, 16>>, amount |-> 0]

AdmitMoreFrequent(p, candidate, victim) ==
    estimate(p.sketch, candidate) > estimate(p.sketch, victim)
\* TinyLfu::admit
admit(p, candidate, victim) ==
    LET victim_freq == estimate(p.sketch, victim)
        candidate_freq == estimate(p.sketch, candidate)
    IN  IF candidate_freq > victim_freq THEN TRUE
        ELSE IF candidate_freq > ADMIT_HASHDOS_THRESHOLD
             THEN (candidate + victim) % 128 = 0
        ELSE FALSE

\* TinyLfu::remove(entry): the list is chosen by the entry's list id
Removed(r) ==
    IF r.ok THEN [policy |-> [r.policy EXCEPT !.size = Max(@ - 1, 0)], ok |-> TRUE] ELSE r
PolicyRemove(p, e, key) ==
    IF e.policy_list_id = 0 THEN [policy |-> p, ok |-> TRUE]
    ELSE IF e.policy_list_id = 1 THEN Removed(LruRemove(p, e, key))
    ELSE IF e.policy_list_id \in {2, 3} THEN Removed(SlruRemove(p, e, key))
    ELSE [policy |-> p, ok |-> FALSE]

\* TinyLfu::demote_from_protected
RECURSIVE demote_from_protected(_)
demote_from_protected(c) ==
    IF Len(c.policy.protected) > c.policy.protected_cap
    THEN LET key == tail(c.policy.protected)
             d == [c EXCEPT !.policy.protected = pop_tail(@)]
         IN  IF key \in DOMAIN c.entries
             THEN demote_from_protected(SlruInsert(d, key))
             ELSE d
    ELSE c

\* TinyLfu::evict_from_window: [c, first]
RECURSIVE evict_from_window(_, _)
evict_from_window(c, first) ==
    IF Len(c.policy.window) > c.policy.window_cap
    THEN LET evicted == tail(c.policy.window)
             d == [c EXCEPT !.policy.window = pop_tail(@)]
             f == IF first = None THEN evicted ELSE first
         IN  IF evicted \in DOMAIN c.entries
             THEN evict_from_window(SlruInsert(d, evicted), f)
             ELSE evict_from_window(d, f)
    ELSE [c |-> c, first |-> first]

\* TinyLfu::prev_key; Panicked stands for reaching unreachable!() (list id 0)
Panicked == 0 - 2
prev_key(c, key) ==
    IF key = None \/ key \notin DOMAIN c.entries THEN None
    ELSE LET e == c.entries[key]
             list == IF e.policy_list_id = 1 THEN c.policy.window
                     ELSE IF e.policy_list_id = 2 THEN c.policy.probation
                     ELSE c.policy.protected
         IN  IF e.policy_list_id \notin {1, 2, 3} THEN Panicked
             ELSE IF e.policy_list_index THEN prev(list, key) ELSE None

\* the `if let Some(key) = evict && let Some(entry) = entries.get_mut(&key)`
\* block of evict_from_main, on loop state L
Evicted(L, evict, r) ==
    IF r.ok THEN [L EXCEPT !.c.policy = r.policy, !.evicted = evict]
    ELSE [L EXCEPT !.status = "err"]
EvictKey(L, evict) ==
    IF evict # None /\ evict \in DOMAIN L.c.entries
    THEN Evicted(L, evict, PolicyRemove(L.c.policy, L.c.entries[evict], evict))
    ELSE L

\* One pass through the body of the `while self.size > self.capacity` loop of
\* TinyLfu::evict_from_main.  L = [c, candidate, victim, candidate_queue,
\* victim_queue, evicted, status]; status "err" is the `?` return.
\* the candidate is taken from the window tail once the first one is used up
TakeCandidate(L) ==
    IF L.candidate = None /\ L.candidate_queue = "Probation"
    THEN [L EXCEPT !.candidate = tail(L.c.policy.window), !.candidate_queue = "Window"]
    ELSE L
\* after the victim was evicted: candidate = self.prev_key(candidate)
Admitted(N, candidate) ==
    IF N.status = "err" THEN N ELSE [N EXCEPT !.candidate = prev_key(N.c, candidate)]
EvictStep(M) ==
    IF M.candidate = None /\ M.victim = None /\ M.victim_queue = "Probation"
    THEN [M EXCEPT !.victim = tail(M.c.policy.protected), !.victim_queue = "Protected"]
    ELSE IF M.candidate = None /\ M.victim = None /\ M.victim_queue = "Protected"
    THEN [M EXCEPT !.victim = tail(M.c.policy.window), !.victim_queue = "Window"]
    ELSE IF M.victim = None
    THEN EvictKey([M EXCEPT !.candidate = prev_key(M.c, M.candidate)], M.candidate)
    ELSE IF M.candidate = None
    THEN EvictKey([M EXCEPT !.victim = prev_key(M.c, M.victim)], M.victim)
    ELSE IF M.victim = M.candidate
    THEN [EvictKey([M EXCEPT !.victim = prev_key(M.c, M.victim)], M.candidate)
             EXCEPT !.candidate = None]
    ELSE IF admit(M.c.policy, M.candidate, M.victim)
    THEN Admitted(EvictKey([M EXCEPT !.victim = prev_key(M.c, M.victim)], M.victim),
                  M.candidate)
    ELSE EvictKey([M EXCEPT !.candidate = prev_key(M.c, M.candidate)], M.candidate)
EvictIteration(L) == EvictStep(TakeCandidate(L))

\* The loop itself.  The body is deterministic, so an iteration that leaves the
\* loop state as it found it repeats for ever: status "hang".  steps counts the
\* iterations made.
RECURSIVE EvictLoop(_, _)
EvictNext(L, N, steps) ==
    IF N = L THEN [L EXCEPT !.status = "hang", !.steps = steps]
    ELSE IF N.candidate = Panicked \/ N.victim = Panicked
    THEN [N EXCEPT !.status = "panic", !.steps = steps + 1]
    ELSE EvictLoop(N, steps + 1)
\* an eviction loop `while self.size >= self.capacity`
EvictBelow(L, steps) ==
    IF L.status # "ok" \/ L.c.policy.size < L.c.policy.capacity
    THEN [L EXCEPT !.steps = steps]
    ELSE EvictNext(L, EvictIteration(L), steps)
EvictLoop(L, steps) ==
    IF L.status # "ok" \/ L.c.policy.size <= L.c.policy.capacity
    THEN [L EXCEPT !.steps = steps]
    ELSE EvictNext(L, EvictIteration(L), steps)

\* TinyLfu::evict_from_main
evict_from_main(c, candidate) ==
    EvictLoop([c |-> c, candidate |-> candidate, victim |-> tail(c.policy.probation),
               candidate_queue |-> "Probation", victim_queue |-> "Probation",
               evicted |-> None, status |-> "ok", steps |-> 0], 0)

\* TinyLfu::evict_entries
EvictFrom(w) == evict_from_main(w.c, w.first)
evict_entries(c) == EvictFrom(evict_from_window(c, None))

\* ------------------------------------------------- timerwheel.rs: TimerWheel
buckets == <<64, 64, 32, 4, 1>>
\* trailing_zeros of the spans 2^30 (1s), 2^36 (1m), 2^42 (1h), 2^47 (1d), 4 * 2^47 twice
shift == <<30, 36, 42, 47, 49, 49>>
spans == [i \in 1..6 |-> Ticks(Pow2(shift[i] - LoBits))]

\* wheel.buckets holds the non-empty buckets only: <<level, slot>> |-> list
Bucket(w, idx) == IF idx \in DOMAIN w.buckets THEN w.buckets[idx] ELSE <<>>
PutBucket(w, idx, list) ==
    [w EXCEPT !.buckets =
        [j \in (IF list = <<>> THEN DOMAIN w.buckets \ {idx} ELSE DOMAIN w.buckets \cup {idx})
            |-> IF j = idx THEN list ELSE w.buckets[j]]]

\* TimerWheel::new with the clock reading `now`
NewTimerWheel(now) == [buckets |-> EmptyFn, nanos |-> now]

RECURSIVE FindLevel(_, _)
\* a level search with `duration <= spans[i + 1]`
FindLevelUpTo(duration, i) ==
    IF i > 4 THEN 5
    ELSE IF TLe(duration, spans[i + 2]) THEN i
    ELSE FindLevel(duration, i + 1)
FindLevel(duration, i) ==
    IF i > 4 THEN 5
    ELSE IF TLt(duration, spans[i + 2]) THEN i
    ELSE FindLevel(duration, i + 1)

\* TimerWheel::find_index (levels and slots count from 0, as in the code)
IndexAt(expire, i) ==
    IF i > 4 THEN <<4, 0>>
    ELSE <<i, Shr(expire, shift[i + 1]) % buckets[i + 1]>>
find_index(w, expire) == IndexAt(expire, FindLevel(TSatSub(expire, w.nanos), 0))

\* a deschedule that resets the entry and leaves its node in the bucket
DescheduleKeep(w, e, key) ==
    [wheel |-> w, entry |-> [e EXCEPT !.wheel_list_index = FALSE, !.wheel_index = <<0, 0>>]]
\* TimerWheel::deschedule(entry): [wheel, entry]
deschedule(w, e, key) ==
    [wheel |-> IF e.wheel_list_index
               THEN PutBucket(w, e.wheel_index, list_remove(Bucket(w, e.wheel_index), key))
               ELSE w,
     entry |-> [e EXCEPT !.wheel_list_index = FALSE, !.wheel_index = <<0, 0>>]]

\* TimerWheel::schedule(key, entry): [wheel, entry]
ScheduleAt(d, key, w_index) ==
    [wheel |-> PutBucket(d.wheel, w_index, insert_front(Bucket(d.wheel, w_index), key)),
     entry |-> [d.entry EXCEPT !.wheel_index = w_index, !.wheel_list_index = TRUE]]
\* a schedule without the `if entry.expire != 0` test
ScheduledAlways(d, key) == ScheduleAt(d, key, find_index(d.wheel, d.entry.expire))
Scheduled(d, key) ==
    IF d.entry.expire # Zero
    THEN ScheduleAt(d, key, find_index(d.wheel, d.entry.expire))
    ELSE d
\* a schedule that leaves the old node of the key where it is
ScheduleKeep(w, e, key) == Scheduled([wheel |-> w, entry |-> e], key)
schedule(w, e, key) == Scheduled(deschedule(w, e, key), key)

\* schedule / deschedule on the entry of `key` held in the map
Store(c, key, r) == [c EXCEPT !.wheel = r.wheel, !.entries[key] = r.entry]
ScheduleIn(c, key) == Store(c, key, schedule(c.wheel, c.entries[key], key))
DescheduleIn(c, key) == Store(c, key, deschedule(c.wheel, c.entries[key], key))

RECURSIVE ApplyAll(_, _, _)
ApplyAll(c, nodes, again) ==
    IF nodes = <<>> THEN c
    ELSE ApplyAll(IF nodes[1].key \notin DOMAIN c.entries THEN c
                  ELSE IF again THEN ScheduleIn(c, nodes[1].key)
                  ELSE DescheduleIn(c, nodes[1].key),
                  Tail(nodes), again)
\* TimerWheel::expire on one bucket: the keys of the bucket whose entry exists are
\* split into removed (expire <= nanos) and modified; removed are descheduled,
\* modified are scheduled again.  [c, removed]
ExpireSplit(c, removed, modified) ==
    [c |-> ApplyAll(ApplyAll(c, removed, FALSE), modified, TRUE),
     removed |-> [i \in 1..Len(removed) |-> removed[i].key]]
\* an expire that takes every key of a scanned bucket as expired
ExpireEvery(c, present) == ExpireSplit(c, present, <<>>)
\* an expire that drops the keys that are not yet due instead of scheduling them
ExpireDue(c, present) ==
    ExpireSplit(c, present,
                SelectSeq(present, LAMBDA n : TLe(c.entries[n.key].expire, c.wheel.nanos)))
ExpirePresent(c, present) ==
    ExpireSplit(c,
                SelectSeq(present, LAMBDA n : TLe(c.entries[n.key].expire, c.wheel.nanos)),
                SelectSeq(present, LAMBDA n : ~TLe(c.entries[n.key].expire, c.wheel.nanos)))
ExpireBucket(c, idx) ==
    ExpirePresent(c, SelectSeq(Bucket(c.wheel, idx), LAMBDA n : n.key \in DOMAIN c.entries))

\* TimerWheel::expire(index, prev_ticks, delta): scans steps buckets from start
RECURSIVE ExpireScan(_, _, _, _, _)
ExpireNext(r, level, i, end, acc) ==
    IF r.removed = <<>> THEN ExpireScan(r.c, level, i + 1, end, acc)
    ELSE ExpireScan(r.c, level, i + 1, end, acc \o r.removed)
\* the first step from i on whose bucket holds a node, `end` when there is none:
\* the steps over empty buckets change nothing
Occupied(w, level, i, end) ==
    {j \in i..(end - 1) : <<level, j % buckets[level + 1]>> \in DOMAIN w.buckets}
NextOccupied(w, level, i, end) ==
    IF Occupied(w, level, i, end) = {} THEN end
    ELSE CHOOSE j \in Occupied(w, level, i, end) : \A k \in Occupied(w, level, i, end) : j <= k
ExpireAt(c, level, i, end, acc) ==
    IF i >= end THEN [c |-> c, removed |-> acc]
    ELSE ExpireNext(ExpireBucket(c, <<level, i % buckets[level + 1]>>), level, i, end, acc)
ExpireScan(c, level, i, end, acc) ==
    ExpireAt(c, level, NextOccupied(c.wheel, level, i, end), end, acc)
ExpireFrom(c, level, start, steps) == ExpireScan(c, level, start, start + steps, <<>>)
expire(c, level, prev_ticks, delta) ==
    ExpireFrom(c, level, prev_ticks % buckets[level + 1],
               Min(delta + 1, buckets[level + 1]))

\* TimerWheel::advance(now, entries): [c, removed]
RECURSIVE AdvanceLevels(_, _, _, _, _)
AdvanceNext(r, previous, now, i, acc) ==
    AdvanceLevels(r.c, previous, now, i + 1, acc \o r.removed)
\* an advance that scans level 0 only
AdvanceLowest(c, previous, now, i, acc, prev_ticks, current_ticks) ==
    IF current_ticks <= prev_ticks \/ i > 0 THEN [c |-> c, removed |-> acc]
    ELSE AdvanceNext(expire(c, i, prev_ticks, current_ticks - prev_ticks),
                     previous, now, i, acc)
AdvanceLevel(c, previous, now, i, acc, prev_ticks, current_ticks) ==
    IF current_ticks <= prev_ticks THEN [c |-> c, removed |-> acc]
    ELSE AdvanceNext(expire(c, i, prev_ticks, current_ticks - prev_ticks),
                     previous, now, i, acc)
AdvanceLevels(c, previous, now, i, acc) ==
    IF i > 4 THEN [c |-> c, removed |-> acc]
    ELSE AdvanceLevel(c, previous, now, i, acc,
                      Shr(previous, shift[i + 1]), Shr(now, shift[i + 1]))
wheel_advance(c, now) ==
    AdvanceLevels([c EXCEPT !.wheel.nanos = now], c.wheel.nanos, now, 0, <<>>)

WheelUncleared(w) == w
\* TimerWheel::clear
wheel_clear(w) == [w EXCEPT !.buckets = EmptyFn]

\* ------------------------------------------------------ tlfu.rs: hill climber
\* f32 values are kept as rationals <<numerator, denominator>>, denominator > 0
RECURSIVE Gcd(_, _)
Gcd(a, b) == IF b = 0 THEN a ELSE Gcd(b, a % b)
Abs(x) == IF x < 0 THEN 0 - x ELSE x
Rat(n, d) == LET g == Gcd(Abs(n), d) IN <<n \div g, d \div g>>
RatNeg(r) == <<0 - r[1], r[2]>>
\* `as isize`: truncation toward zero
RatTrunc(r) == IF r[1] < 0 THEN 0 - ((0 - r[1]) \div r[2]) ELSE r[1] \div r[2]
HILL_CLIMBER_STEP_DECAY_RATE == <<49, 50>>
HILL_CLIMBER_STEP_PERCENT == <<1, 16>>

\* usize::saturating_add_signed
SatAddSigned(u, i) == Max(u + i, 0)

\* TinyLfu::climb
climb(p) ==
    LET total == p.hit_in_sample + p.misses_in_sample
        \* numerator of delta = sample_hr - hr over the denominator total * hr[2]
        delta == IF total = 0 THEN 0 ELSE p.hit_in_sample * p.hr[2] - p.hr[1] * total
        deltaDen == IF total = 0 THEN 1 ELSE total * p.hr[2]
        hr == IF total = 0 THEN p.hr ELSE Rat(p.hit_in_sample, total)
        amount == IF delta >= 0 THEN p.step ELSE RatNeg(p.step)
        decayed == Rat(amount[1] * HILL_CLIMBER_STEP_DECAY_RATE[1],
                       amount[2] * HILL_CLIMBER_STEP_DECAY_RATE[2])
        full == Rat(p.size * HILL_CLIMBER_STEP_PERCENT[1], HILL_CLIMBER_STEP_PERCENT[2])
        next_step_size ==
            IF 20 * Abs(delta) >= deltaDen
            THEN IF amount[1] >= 0 THEN full ELSE RatNeg(full)
            ELSE decayed
        a0 == RatTrunc(amount)
        a1 == IF a0 > 0 /\ a0 > p.protected_alloc THEN p.protected_alloc ELSE a0
        a2 == IF a1 < 0 /\ 0 - a1 > p.window_cap - 1 THEN 0 - (p.window_cap - 1) ELSE a1
    IN  [p EXCEPT !.hr = hr, !.hit_in_sample = 0, !.misses_in_sample = 0,
                  !.step = next_step_size, !.amount = a2]

\* TinyLfu::increase_window: [c, amount]
RECURSIVE increase_window(_, _)
IncreaseBy(c, amount, key, r) ==
    IF ~r.ok THEN increase_window(c, amount - 1)
    ELSE increase_window(LruInsert([c EXCEPT !.policy = r.policy], key), amount - 1)
IncreaseWith(c, amount, key) ==
    IF amount <= 0 \/ key = None THEN [c |-> c, amount |-> amount]
    ELSE IF key \notin DOMAIN c.entries THEN increase_window(c, amount - 1)
    ELSE IncreaseBy(c, amount, key, SlruRemove(c.policy, c.entries[key], key))
increase_window(c, amount) ==
    IncreaseWith(c, amount, IF c.policy.probation # <<>> THEN tail(c.policy.probation)
                            ELSE tail(c.policy.protected))

\* TinyLfu::decrease_window: [c, amount]
RECURSIVE decrease_window(_, _)
DecreaseBy(c, amount, key, r) ==
    IF ~r.ok THEN decrease_window(c, amount - 1)
    ELSE decrease_window(SlruInsert([c EXCEPT !.policy = r.policy], key), amount - 1)
DecreaseWith(c, amount, key) ==
    IF amount <= 0 \/ key = None THEN [c |-> c, amount |-> amount]
    ELSE IF key \notin DOMAIN c.entries THEN decrease_window(c, amount - 1)
    ELSE DecreaseBy(c, amount, key, LruRemove(c.policy, c.entries[key], key))
decrease_window(c, amount) == DecreaseWith(c, amount, tail(c.policy.window))

\* TinyLfu::resize_window
ResizeDone(r, remain) ==
    [r.c EXCEPT !.policy.amount = remain,
                !.policy.window_cap = SatAddSigned(@, 0 - remain),
                !.policy.protected_cap = SatAddSigned(@, remain)]
Resized(r, amount) == ResizeDone(r, IF amount < 0 THEN 0 - r.amount ELSE r.amount)
ResizeUnmoved(c, amount) == Resized([c |-> c, amount |-> 0], amount)
ResizeBy(c, amount) ==
    Resized(IF amount > 0 THEN increase_window(c, amount)
            ELSE IF amount < 0 THEN decrease_window(c, 0 - amount)
            ELSE [c |-> c, amount |-> 0],
            amount)
resize_window(c) ==
    ResizeBy(demote_from_protected(
                 [c EXCEPT !.policy.window_cap = Max(SatAddSigned(@, c.policy.amount), 1),
                           !.policy.protected_cap =
                               Max(SatAddSigned(@, 0 - c.policy.amount), 1)]),
             c.policy.amount)

\* the adaptation trigger at the head of TinyLfu::set and TinyLfu::access
Adapt(c) ==
    IF c.policy.hit_in_sample + c.policy.misses_in_sample > c.policy.sketch.sample_size
    THEN resize_window([c EXCEPT !.policy = climb(@)])
    ELSE c

\* a TinyLfu::set that links the new key but does not count it
InsertUncounted(c, key) ==
    IF key \in DOMAIN c.entries /\ c.entries[key].policy_list_id = 0
    THEN [LruInsert(c, key) EXCEPT !.policy.misses_in_sample = @ + 1,
                                   !.policy.sketch = add(@, key)]
    ELSE c

\* TinyLfu::set: [c, evicted, status, steps]
InsertNew(c, key) ==
    IF key \in DOMAIN c.entries /\ c.entries[key].policy_list_id = 0
    THEN [LruInsert(c, key) EXCEPT !.policy.misses_in_sample = @ + 1,
                                   !.policy.size = @ + 1,
                                   !.policy.sketch = add(@, key)]
    ELSE c
policy_set(c, key) == evict_entries(demote_from_protected(InsertNew(Adapt(c), key)))

\* TinyLfu::access: [c, ok]
\* an access that drops the key it finds expired
AccessExpiring(c, key, now, e) ==
    IF e.expire # Zero /\ TLe(e.expire, now) THEN [c |-> [c EXCEPT !.entries = [k \in DOMAIN c.entries \ {key} |-> c.entries[k]]],
          ok |-> TRUE]
    ELSE [c |-> c, ok |-> TRUE]
AccessUnexpiring(c, key, now, e) ==
    IF ~e.policy_list_index THEN [c |-> c, ok |-> FALSE]
    ELSE IF e.policy_list_id = 1
    THEN [c |-> [c EXCEPT !.policy.window = touch(@, key)], ok |-> TRUE]
    ELSE IF e.policy_list_id \in {2, 3} THEN SlruAccess(c, key)
    ELSE [c |-> c, ok |-> FALSE]
AccessEntry(c, key, now, e) ==
    IF e.expire # Zero /\ TLe(e.expire, now) THEN [c |-> c, ok |-> TRUE]
    ELSE IF ~e.policy_list_index THEN [c |-> c, ok |-> FALSE]
    ELSE IF e.policy_list_id = 1
    THEN [c |-> [c EXCEPT !.policy.window = touch(@, key)], ok |-> TRUE]
    ELSE IF e.policy_list_id \in {2, 3} THEN SlruAccess(c, key)
    ELSE [c |-> c, ok |-> FALSE]
AccessCounted(c, key, now) ==
    IF key \notin DOMAIN c.entries THEN [c |-> c, ok |-> TRUE]
    ELSE AccessEntry([c EXCEPT !.policy.hit_in_sample = @ + 1], key, now, c.entries[key])
AccessAdapted(c, key, now) ==
    AccessCounted([c EXCEPT !.policy.sketch = add(@, key)], key, now)
policy_access(c, key, now) == AccessAdapted(Adapt(c), key, now)

\* ------------------------------------------------------- core.rs: TlfuCore
\* TlfuCore::new
NewCore(size) ==
    [policy |-> NewTinyLfu(size), wheel |-> NewTimerWheel(Zero), entries |-> EmptyFn]

\* HashMap::remove(key) on `entries`: the entry is dropped, so whatever node of
\* the key is still in a policy list or a wheel bucket is no entry's node any more
UnlinkWheel(w, key) ==
    [w EXCEPT !.buckets = [j \in DOMAIN w.buckets |-> Unlink(w.buckets[j], key)]]
Drop(c, key) ==
    LET d == UnlinkAll(c, key)
    IN  [d EXCEPT !.entries = [k \in DOMAIN c.entries \ {key} |-> c.entries[k]],
                  !.wheel = UnlinkWheel(@, key)]

\* HashMap::insert(key, entry)
Insert(c, key, e) ==
    [c EXCEPT !.entries = (key :> e) @@ c.entries]

\* TlfuCore::set_entry with the clock reading `now`: [c, evicted, status, steps]
\* .ok().flatten().inspect(..): deschedule and drop the evicted key
WithEvicted(r) ==
    [c |-> IF r.status = "ok" /\ r.evicted # None /\ r.evicted \in DOMAIN r.c.entries
           THEN Drop(DescheduleIn(r.c, r.evicted), r.evicted)
           ELSE r.c,
     evicted |-> IF r.status = "ok" THEN r.evicted ELSE None,
     status |-> IF r.status = "err" THEN "ok" ELSE r.status,
     steps |-> r.steps]
\* a set_entry that takes every key for a new one
SetEntryNew(c, now, key, ttl) ==
    WithEvicted(policy_set(
        ScheduleIn(Insert(c, key, [NewEntry EXCEPT !.expire = expire_ns(now, ttl)]), key),
        key))
set_entry(c, now, key, ttl) ==
    IF key \in DOMAIN c.entries
    THEN [c |-> ScheduleIn([c EXCEPT !.entries[key].expire = expire_ns(now, ttl)], key),
          evicted |-> None, status |-> "ok", steps |-> 0]
    ELSE WithEvicted(policy_set(
             ScheduleIn(Insert(c, key, [NewEntry EXCEPT !.expire = expire_ns(now, ttl)]), key),
             key))

\* TlfuCore::remove_internal, and the body of TlfuCore::remove
remove_internal(c, key) ==
    IF key \in DOMAIN c.entries
    THEN LET e == c.entries[key]
             r == PolicyRemove(c.policy, e, key)
             w == deschedule(c.wheel, e, key)
         IN  Drop([c EXCEPT !.policy = r.policy, !.wheel = w.wheel], key)
    ELSE c

\* TlfuCore::remove: [c, ret]
remove(c, key) ==
    [c |-> remove_internal(c, key),
     ret |-> IF key \in DOMAIN c.entries THEN key ELSE None]

\* a ttl argument (i64) is [neg, mag]: its sign and i64::unsigned_abs
Ttl(neg, mag) == [neg |-> neg, mag |-> mag]
MinusOne == Ttl(TRUE, Ns(1))

\* the `for (key, ttl) in entries` loop of TlfuCore::set:
\* [c, evicted (the HashSet), status, steps (most iterations of one eviction loop)]
RECURSIVE SetLoop(_, _, _, _, _)
\* a loop step that does not remember the key set_entry evicted
SetNextForget(r, now, batch, evicted, steps) ==
    IF r.status # "ok"
    THEN [c |-> r.c, evicted |-> evicted, status |-> r.status, steps |-> Max(steps, r.steps)]
    ELSE SetLoop(r.c, now, Tail(batch), evicted, Max(steps, r.steps))
SetNext(r, now, batch, evicted, steps) ==
    IF r.status # "ok"
    THEN [c |-> r.c, evicted |-> evicted, status |-> r.status, steps |-> Max(steps, r.steps)]
    ELSE SetLoop(r.c, now, Tail(batch),
                 IF r.evicted # None THEN evicted \cup {r.evicted} ELSE evicted,
                 Max(steps, r.steps))
\* the rest of the loop after the pairs that gave r; an Err has ended the loop
SetRest(r, now, batch) ==
    IF r.status # "ok" THEN r ELSE SetLoop(r.c, now, batch, r.evicted, r.steps)
\* a batch of several pairs is taken as its first half, then its second half
SetLoop(c, now, batch, evicted, steps) ==
    IF batch = <<>> THEN [c |-> c, evicted |-> evicted, status |-> "ok", steps |-> steps]
    ELSE IF Len(batch) > 1
    THEN SetRest(SetLoop(c, now, SubSeq(batch, 1, Len(batch) \div 2), evicted, steps),
                 now, SubSeq(batch, (Len(batch) \div 2) + 1, Len(batch)))
    ELSE IF batch[1][2] = MinusOne
    THEN SetLoop(remove_internal(c, batch[1][1]), now, Tail(batch), evicted, steps)
    ELSE IF batch[1][1] \notin evicted
    THEN SetNext(set_entry(c, now, batch[1][1], batch[1][2].mag), now, batch, evicted, steps)
    ELSE SetLoop(c, now, Tail(batch), evicted, steps)

\* evicted.retain(|key| self.entries.remove(key).is_some())
RECURSIVE DropAll(_, _)
DropAll(c, keys) ==
    IF keys = {} THEN c
    ELSE DropAll(Drop(c, CHOOSE x \in keys : TRUE), keys \ {CHOOSE x \in keys : TRUE})
Retain(r, retained) ==
    [c |-> DropAll(r.c, retained), ret |-> retained, status |-> "ok", steps |-> r.steps]

\* TlfuCore::set: [c, ret (the returned keys, in no order), status, steps]
SetDone(r) ==
    IF r.status # "ok" THEN [c |-> r.c, ret |-> {}, status |-> r.status, steps |-> r.steps]
    ELSE Retain(r, {k \in r.evicted : k \in DOMAIN r.c.entries})
set(c, now, batch) == SetDone(SetLoop(c, now, batch, {}, 0))

\* TlfuCore::access
RECURSIVE access(_, _, _)
\* TlfuCore::access_entry: an Err of the policy is logged and dropped
access_entry(r, now, keys) ==
    IF r.ok THEN access(r.c, now, keys) ELSE access(r.c, now, keys)
\* the rest of the loop after the keys that gave c
AccessRest(c, now, keys) ==
    IF c.policy.size >= 0 THEN access(c, now, keys) ELSE access(c, now, keys)
\* a list of several keys is taken as its first half, then its second half
access(c, now, keys) ==
    IF keys = <<>> THEN c
    ELSE IF Len(keys) > 1
    THEN AccessRest(access(c, now, SubSeq(keys, 1, Len(keys) \div 2)),
                    now, SubSeq(keys, (Len(keys) \div 2) + 1, Len(keys)))
    ELSE access_entry(policy_access(c, keys[1], now), now, Tail(keys))

\* the `for &key in &expired` loop of TlfuCore::advance
RECURSIVE RemoveExpired(_, _)
RemoveExpired(c, expired) ==
    IF expired = <<>> THEN c
    ELSE RemoveExpired(
             IF expired[1] \in DOMAIN c.entries
             THEN Drop([c EXCEPT !.policy =
                                     PolicyRemove(@, c.entries[expired[1]], expired[1]).policy],
                       expired[1])
             ELSE c,
             Tail(expired))

\* TlfuCore::advance with the clock reading `now`: [c, ret]
Expired(r) == [c |-> RemoveExpired(r.c, r.removed), ret |-> r.removed]
advance(c, now) == Expired(wheel_advance(c, now))

\* TlfuCore::clear: the wheel and the map are cleared, the policy is not touched,
\* so every node of the policy lists becomes a node of no entry
UnlinkKeys(list, keys) ==
    IF list = <<>> THEN <<>>
    ELSE [i \in 1..Len(list) |->
             IF list[i].key \in keys THEN [list[i] EXCEPT !.live = FALSE] ELSE list[i]]
clear(c) ==
    [c EXCEPT !.policy.window = UnlinkKeys(@, DOMAIN c.entries),
              !.policy.probation = UnlinkKeys(@, DOMAIN c.entries),
              !.policy.protected = UnlinkKeys(@, DOMAIN c.entries),
              !.wheel = wheel_clear(@),
              !.entries = EmptyFn]

\* TlfuCore::len, TlfuCore::keys, TlfuCore::debug_info
len(c) == Cardinality(DOMAIN c.entries)
keys(c) == DOMAIN c.entries
debug_info(c) ==
    [len |-> c.policy.size, window_len |-> Len(c.policy.window),
     probation_len |-> Len(c.policy.probation), protected_len |-> Len(c.policy.protected)]

\* --------------------------------------------------- filter.rs: BloomFilter
\* A key k is the pair <<k >> 32, k & (2^32 - 1)>>; the bits of a hash above
\* bits_mask never matter.  `bits` is the set of the bit positions that are set.
NextPowerOfTwo(n) == CHOOSE p \in {Pow2(i) : i \in 0..30} : p >= n /\ (p = 1 \/ p \div 2 < n)
\* -ln(fpp) / ln(2)^2 for fpp = 0.001, the smallest fpp new() lets through, and ln 2
FilterFactor == <<143776, 10000>>
Ln2 == <<6931, 10000>>
\* BloomFilter::new(insertions, 0.001)
FilterSized(insertions, bits) ==
    [insertions |-> insertions, bits_mask |-> bits - 1,
     slice_count |-> Max((Ln2[1] * bits) \div (Ln2[2] * insertions), 1),
     words |-> (bits + 63) \div 64, bits |-> {}, additions |-> 0]
FilterOf(insertions) ==
    FilterSized(insertions,
                Max(NextPowerOfTwo((insertions * FilterFactor[1]) \div FilterFactor[2]), 1))
NewBloomFilter(insertions) == FilterOf(Max(insertions, 1))
\* the bit of slice i of a key: key.wrapping_add(i * (key >> 32)) & bits_mask
HashIndex(f, key, i) == (key[2] + i * key[1]) % (f.bits_mask + 1)
\* BloomFilter::get / set
BloomGet(f, index) == index < f.words * 64 /\ index \in f.bits
BloomSet(f, index) == IF index >= f.words * 64 THEN f ELSE [f EXCEPT !.bits = @ \cup {index}]
\* BloomFilter::reset
BloomReset(f) == [f EXCEPT !.bits = {}, !.additions = 0]
\* BloomFilter::put
RECURSIVE SetSlices(_, _, _)
SetSlices(f, key, i) ==
    IF i >= f.slice_count THEN f ELSE SetSlices(BloomSet(f, HashIndex(f, key, i)), key, i + 1)
Counted(f) == IF f.additions >= f.insertions THEN BloomReset(f) ELSE f
PutLate(f, key) == Counted(SetSlices([f EXCEPT !.additions = @ + 1], key, 0))
BloomPut(f, key) == SetSlices(Counted([f EXCEPT !.additions = @ + 1]), key, 0)
\* BloomFilter::contains
BloomContains(f, key) ==
    IF f.slice_count = 0 THEN FALSE
    ELSE \A i \in 0..(f.slice_count - 1) : BloomGet(f, HashIndex(f, key, i))

\* ------------------------------------------------------------ the program
VARIABLES
    policy,     \* TlfuCore.policy: the TinyLfu
    wheel,      \* TlfuCore.wheel: the TimerWheel (buckets, nanos)
    entries,    \* TlfuCore.entries: key |-> Entry
    now,        \* what Clock::now_ns would return
    status,     \* "ok", or "hang" / "panic" when a call did not return
    ops,        \* work done so far: pairs set, keys accessed, other calls
    last,       \* the last call: [op, arg, ret, steps, pre_keys]
    filter      \* a BloomFilter, a class of its own that TlfuCore does not use

vars == <<policy, wheel, entries, now, status, ops, last, filter>>

Core == [policy |-> policy, wheel |-> wheel, entries |-> entries]

\* inputs
TtlInputs == {MinusOne, Ttl(FALSE, Zero), Ttl(FALSE, Ticks(1))}
Pairs == Keys \X TtlInputs
RECURSIVE SeqsUpTo(_, _)
SeqsUpTo(S, n) ==
    IF n = 0 THEN {<<>>}
    ELSE LET R == SeqsUpTo(S, n - 1)
         IN  R \cup {Append(q, x) : q \in {r \in R : Len(r) = n - 1}, x \in S}
Batches == SeqsUpTo(Pairs, MaxBatch) \ {<<>>}
KeyLists == SeqsUpTo(Keys, MaxBatch) \ {<<>>}

BatchKeys(batch) == {batch[i][1] : i \in DOMAIN batch}

Start(size) ==
    /\ policy = NewCore(size).policy
    /\ wheel = NewCore(size).wheel
    /\ entries = NewCore(size).entries
    /\ now = Zero
    /\ status = "ok"
    /\ ops = 0
    /\ last = [op |-> "new", arg |-> size, ret |-> None, steps |-> 0, pre_keys |-> {}]
    /\ filter = NewBloomFilter(1)

Init == \E size \in Capacities : Start(size)

\* a cache of LargeCap entries: new(LargeCap), then keys 1..LargeCap set with
\* ttl 0, FillChunk keys to a call
FillBatch(lo) == [i \in 1..Min(FillChunk, LargeCap + 1 - lo) |-> <<lo + i - 1, Ttl(FALSE, Zero)>>]
RECURSIVE FillFrom(_, _)
FillNext(c, r, lo) == IF r.status = "ok" THEN FillFrom(r.c, lo + FillChunk) ELSE c
FillFrom(c, lo) ==
    IF lo > LargeCap THEN c
    ELSE FillNext(c, set(c, Zero, FillBatch(lo)), lo)
Filled == FillFrom(NewCore(LargeCap), 1)
InitLarge ==
    /\ len(Filled) = LargeCap
    /\ policy = Filled.policy
    /\ wheel = Filled.wheel
    /\ entries = Filled.entries
    /\ now = Zero
    /\ status = "ok"
    /\ ops = LargeOps
    /\ last = [op |-> "new", arg |-> LargeCap, ret |-> None, steps |-> 0, pre_keys |-> {}]
    /\ filter = NewBloomFilter(1)

Becomes(c) ==
    /\ policy' = c.policy
    /\ wheel' = c.wheel
    /\ entries' = c.entries

Called(op, arg, ret, steps, cost) ==
    /\ ops' = ops + cost
    /\ last' = [op |-> op, arg |-> arg, ret |-> ret, steps |-> steps,
                pre_keys |-> DOMAIN entries]
    /\ filter' = filter

Ready(cost) == status = "ok" /\ ops + cost <= MaxOps

Set(batch) ==
    /\ Ready(Len(batch))
    /\ \E r \in {set(Core, now, batch)} :
           /\ Becomes(r.c)
           /\ status' = r.status
           /\ Called("set", batch, r.ret, r.steps, Len(batch))
    /\ UNCHANGED now

Access(list) ==
    /\ Ready(Len(list))
    /\ \E c \in {access(Core, now, list)} : Becomes(c)
    /\ Called("access", list, None, 0, Len(list))
    /\ UNCHANGED <<now, status>>

Remove(key) ==
    /\ Ready(1)
    /\ \E r \in {remove(Core, key)} :
           Becomes(r.c) /\ Called("remove", key, r.ret, 0, 1)
    /\ UNCHANGED <<now, status>>

Advance ==
    /\ Ready(1)
    /\ \E r \in {advance(Core, now)} :
           Becomes(r.c) /\ Called("advance", now, r.ret, 0, 1)
    /\ UNCHANGED <<now, status>>

Clear ==
    /\ Ready(1)
    /\ \E c \in {clear(Core)} : Becomes(c)
    /\ Called("clear", None, None, 0, 1)
    /\ UNCHANGED <<now, status>>

\* the monotonic clock moves on between two calls
TickDeltas == {Ns(1), Ticks(1)}
Tick(d) ==
    /\ status = "ok"
    /\ TAdd(now, d)[1] <= MaxTick
    /\ TAdd(now, d)[2] <= MaxNs
    /\ now' = TAdd(now, d)
    /\ UNCHANGED <<policy, wheel, entries, status, ops, last, filter>>

Next ==
    \/ \E batch \in Batches : Set(batch)
    \/ \E list \in KeyLists : Access(list)
    \/ \E key \in Keys : Remove(key)
    \/ Advance
    \/ Clear
    \/ \E d \in TickDeltas : Tick(d)

Spec == Init /\ [][Next]_vars

\* A fill run: on a fresh cache, one set call with a batch of more distinct keys
\* than the capacity, all with ttl 0; then an access of one of its keys; then the
\* same batch set again.  `last.arg` is the batch through the whole run.
FillKeys == 1..(MaxKey + 2)
FillCaps == 1..(MaxCap + 1)
\* the lists of distinct keys, of up to n keys
RECURSIVE DistinctLists(_)
DistinctLists(n) ==
    IF n = 0 THEN {<<>>}
    ELSE LET R == DistinctLists(n - 1)
         IN  R \cup UNION {{Append(q, x) : x \in FillKeys \ {q[i] : i \in DOMAIN q}} :
                              q \in {r \in R : Len(r) = n - 1}}
AllFillLists == DistinctLists(MaxKey + 2)
FillLists(size) == {q \in AllFillLists : Len(q) > size}
Zeros(q) == [i \in DOMAIN q |-> <<q[i], Ttl(FALSE, Zero)>>]
InitFill == \E size \in FillCaps : Start(size)
Fill(q) ==
    /\ last.op = "new"
    /\ \E r \in {set(Core, now, Zeros(q))} :
           /\ Becomes(r.c)
           /\ status' = r.status
           /\ Called("set", Zeros(q), r.ret, r.steps, 1)
    /\ UNCHANGED now
AccessOne(key) ==
    /\ last.op = "set" /\ ops = 1 /\ status = "ok"
    /\ key \in BatchKeys(last.arg)
    /\ \E c \in {access(Core, now, <<key>>)} : Becomes(c)
    /\ Called("access", last.arg, key, 0, 1)
    /\ UNCHANGED <<now, status>>
Refill ==
    /\ last.op = "access" /\ ops = 2
    /\ \E r \in {set(Core, now, last.arg)} :
           /\ Becomes(r.c)
           /\ status' = r.status
           /\ Called("set", last.arg, r.ret, r.steps, 1)
    /\ UNCHANGED now
NextFill ==
    \/ \E q \in FillLists(policy.capacity) : Fill(q)
    \/ \E key \in FillKeys : AccessOne(key)
    \/ Refill
SpecFill == InitFill /\ [][NextFill]_vars
SpecLarge == InitLarge /\ [][Next]_vars

\* Calls with one pair or one key each, under a budget of `budget` steps; a move
\* of the clock is a step of its own and is recorded as the last step.
Within(budget) == status = "ok" /\ ops < budget
SetOne(key, ttl, budget) ==
    /\ Within(budget)
    /\ \E r \in {set(Core, now, <<<<key, ttl>>>>)} :
           /\ Becomes(r.c)
           /\ status' = r.status
           /\ Called("set", <<<<key, ttl>>>>, r.ret, r.steps, 1)
    /\ UNCHANGED now
TouchOne(key, budget) ==
    /\ Within(budget)
    /\ \E c \in {access(Core, now, <<key>>)} : Becomes(c)
    /\ Called("access", <<key>>, None, 0, 1)
    /\ UNCHANGED <<now, status>>
RemoveOne(key, budget) ==
    /\ Within(budget)
    /\ \E r \in {remove(Core, key)} :
           Becomes(r.c) /\ Called("remove", key, r.ret, 0, 1)
    /\ UNCHANGED <<now, status>>
AdvanceOne(budget) ==
    /\ Within(budget)
    /\ \E r \in {advance(Core, now)} :
           Becomes(r.c) /\ Called("advance", now, r.ret, 0, 1)
    /\ UNCHANGED <<now, status>>
ClearOne(budget) ==
    /\ Within(budget)
    /\ \E c \in {clear(Core)} : Becomes(c)
    /\ Called("clear", None, None, 0, 1)
    /\ UNCHANGED <<now, status>>
TickOne(d, budget) ==
    /\ Within(budget)
    /\ now' = TAdd(now, d)
    /\ Called("tick", d, None, 0, 1)
    /\ UNCHANGED <<policy, wheel, entries, status>>

\* A wheel run: keys set with no TTL, 1 ns, one level-0 span, one level-1 span
\* and a level-1 span plus a level-0 span on a small cache; the clock moves by 1 ns, a level-0 span or a level-1
\* span between the calls.
WheelOps == 5
WheelKeys == 1..(MaxKey - 1)
WheelTtls ==
    {Ttl(FALSE, Zero), Ttl(FALSE, Ns(1)), Ttl(FALSE, spans[1]), Ttl(FALSE, spans[2]),
     Ttl(FALSE, TAdd(spans[2], spans[1]))}
WheelDeltas == {Ns(1), spans[1], spans[2]}
NextWheel ==
    \/ \E key \in WheelKeys, ttl \in WheelTtls : SetOne(key, ttl, WheelOps)
    \/ \E key \in WheelKeys : TouchOne(key, WheelOps)
    \/ \E key \in WheelKeys : RemoveOne(key, WheelOps)
    \/ AdvanceOne(WheelOps)
    \/ ClearOne(WheelOps)
    \/ \E d \in WheelDeltas : TickOne(d, WheelOps)
SpecWheel == Init /\ [][NextWheel]_vars

\* A run on a cache of capacity MaxCap + 1, where probation holds two keys:
\* keys set without TTL, accessed and removed one at a time.
MidOps == 6
MidKeys == 1..(MaxKey + 1)
InitMid == Start(MaxCap + 1)
NextMid ==
    \/ \E key \in MidKeys : SetOne(key, Ttl(FALSE, Zero), MidOps)
    \/ \E key \in MidKeys : TouchOne(key, MidOps)
    \/ \E key \in MidKeys : RemoveOne(key, MidOps)
SpecMid == InitMid /\ [][NextMid]_vars

\* A run over the five levels of the wheel on a cache that never evicts: keys
\* set with TTLs of 1 ns, of one span of each level and of one span plus the
\* span below it; the clock moves by 1 ns or by one span of a level; advance
\* records the levels at which it found the keys of the wheel.
LevelOps == 5
LevelKeys == 1..(MaxKey - 1)
LevelSpans == {spans[i] : i \in 1..5}
LevelTtls ==
    {Ttl(FALSE, d) : d \in {Ns(1)} \cup LevelSpans
                             \cup {TAdd(spans[i + 1], spans[i]) : i \in 1..4}}
LevelDeltas == {Ns(1)} \cup LevelSpans
LevelsOf(c) == [key \in {k \in keys(c) : c.entries[k].wheel_list_index}
                   |-> c.entries[key].wheel_index[1]]
AdvanceSeen(budget) ==
    /\ Within(budget)
    /\ \E r \in {advance(Core, now)} :
           Becomes(r.c) /\ Called("advance", LevelsOf(Core), r.ret, 0, 1)
    /\ UNCHANGED <<now, status>>
NextLevels ==
    \/ \E key \in LevelKeys, ttl \in LevelTtls : SetOne(key, ttl, LevelOps)
    \/ AdvanceSeen(LevelOps)
    \/ \E d \in LevelDeltas : TickOne(d, LevelOps)
SpecLevels == InitMid /\ [][NextLevels]_vars

\* find_index on a wheel whose last advance was at n, for deadlines before n, at
\* n and at n plus a duration on either side of the span of each level
IndexNanos ==
    {Zero, Ns(1), Ticks(1), Ticks(63), TAdd(Ticks(64), Ns(1)), Ticks(4095), spans[4],
     TAdd(spans[5], spans[3])}
IndexDurations ==
    {Zero, Ns(1), TAdd(spans[5], spans[5])}
        \cup UNION {{TSatSub(spans[i], Ns(1)), spans[i], TAdd(spans[i], Ns(1))} : i \in 2..5}
IndexExpires(n) == {Zero, TSatSub(n, Ns(1))} \cup {TAdd(n, d) : d \in IndexDurations}
FindIndex(n, e) ==
    /\ last.op = "new"
    /\ \E r \in {wheel_advance(Core, n)} :
           Becomes(r.c) /\ Called("find_index", e, find_index(r.c.wheel, e), 0, 1)
    /\ now' = n
    /\ UNCHANGED status
NextIndex == \E n \in IndexNanos : \E e \in IndexExpires(n) : FindIndex(n, e)
SpecIndex == InitMid /\ [][NextIndex]_vars

\* Accesses on the full cache of LargeCap entries, whose window holds two keys:
\* the two keys of the window and three keys of probation are accessed, one key
\* to a call.
TouchOps == 4
TouchKeys == {1, 2, 3, LargeCap - 1, LargeCap}
NextTouch == \E key \in TouchKeys : TouchOne(key, LargeOps + TouchOps)
SpecTouch == InitLarge /\ [][NextTouch]_vars

\* admit on sketches filled by CountMinSketch::add: every key is added up to
\* AdmitFreq times, and admit is asked about every pair of keys. Keys 1 and 127
\* sum to 128; no other pair sums to a multiple of 128.
AdmitFreq == 8
AdmitKeys == {1, 2, 127}
SketchAdd(key) ==
    /\ estimate(policy.sketch, key) < AdmitFreq
    /\ policy' = [policy EXCEPT !.sketch = add(policy.sketch, key)]
    /\ Called("add", key, None, 0, 1)
    /\ UNCHANGED <<wheel, entries, now, status>>
Admit(candidate, victim) ==
    /\ Called("admit", <<candidate, victim>>, admit(policy, candidate, victim), 0, 0)
    /\ UNCHANGED <<policy, wheel, entries, now, status>>
NextAdmit ==
    \/ \E key \in AdmitKeys : SketchAdd(key)
    \/ \E candidate \in AdmitKeys : \E victim \in AdmitKeys : Admit(candidate, victim)
SpecAdmit == InitMid /\ [][NextAdmit]_vars

\* A scripted workload on a cache of ClimbCap entries that takes the hill climber
\* through several sampling periods. Every call carries ClimbRun keys: a set of
\* keys that cycle through 1..ClimbSpan (keys absent from the cache are misses),
\* or an access of one present key ClimbRun times (hits). ClimbPeriod calls make
\* about one sampling period; period i has ClimbHits[i] access calls spread evenly
\* among its calls, so the hit ratio falls once and then rises period by period.
\* Even keys are set with a TTL of 1 ns and the clock reads 1 ns more after every
\* call, so an even key is expired from the call after its set on. At any point
\* one more access of a single key (a key that was never set, or the least
\* expired key of the cache) may follow as the last call of the run.
ClimbCap == 16
ClimbRun == 20
ClimbPeriod == 32
ClimbSpan == 200
ClimbCalls == 435
ClimbHits == <<3, 0, 3, 6, 9, 12, 15, 18, 21, 24, 27, 30, 32, 32>>
ClimbAbsent == ClimbSpan + 1
ClimbGoal(n) == ClimbHits[Min((n \div ClimbPeriod) + 1, Len(ClimbHits))]
IsHitCall(n) ==
    (((n % ClimbPeriod) + 1) * ClimbGoal(n)) \div ClimbPeriod
        > ((n % ClimbPeriod) * ClimbGoal(n)) \div ClimbPeriod
ClimbTtl(key) == Ttl(FALSE, IF key % 2 = 0 THEN Ns(1) ELSE Zero)
ClimbKey(n, i) == ((n * ClimbRun + i) % ClimbSpan) + 1
ClimbBatch(n) == [i \in 1..ClimbRun |-> <<ClimbKey(n, i), ClimbTtl(ClimbKey(n, i))>>]
ClimbHitKey(c, n) ==
    IF n % 2 = 0 /\ c.policy.probation # <<>> THEN tail(c.policy.probation)
    ELSE IF c.policy.window # <<>> THEN c.policy.window[1].key
    ELSE tail(c.policy.protected)
ClimbList(c, n) == [i \in 1..ClimbRun |-> ClimbHitKey(c, n)]
Scripted == IF last.op = "new" THEN TRUE ELSE Len(last.arg) = ClimbRun
ClimbSet ==
    /\ Scripted /\ Within(ClimbCalls) /\ ~IsHitCall(ops)
    /\ \E r \in {set(Core, now, ClimbBatch(ops))} :
           /\ Becomes(r.c)
           /\ status' = r.status
           /\ Called("set", ClimbBatch(ops), r.ret, r.steps, 1)
    /\ now' = TAdd(now, Ns(1))
ClimbAccess ==
    /\ Scripted /\ Within(ClimbCalls) /\ IsHitCall(ops)
    /\ \E c \in {access(Core, now, ClimbList(Core, ops))} : Becomes(c)
    /\ Called("access", ClimbList(Core, ops), None, 0, 1)
    /\ now' = TAdd(now, Ns(1))
    /\ UNCHANGED status
ExpiredKeys(c, t) ==
    {key \in keys(c) : c.entries[key].expire # Zero /\ TLe(c.entries[key].expire, t)}
ProbeKeys(c, t) ==
    {ClimbAbsent} \cup {key \in ExpiredKeys(c, t) : \A k \in ExpiredKeys(c, t) : key <= k}
Probe(key) ==
    /\ Scripted /\ Within(ClimbCalls)
    /\ TouchOne(key, ClimbCalls)
NextClimb ==
    \/ ClimbSet
    \/ ClimbAccess
    \/ \E key \in ProbeKeys(Core, now) : Probe(key)
SpecClimb == Start(ClimbCap) /\ [][NextClimb]_vars


\* The sketch alone: on new(size) the hashes size, 2 * size, 3 * size, ... are
\* added SketchRun times each, one add to a step, so that every counter of a
\* hash reaches 15 and the additions reach the sample size; after any add the
\* sketch may be aged by a direct reset, which ends the run.  last.ret is 1 once
\* an aging has run.
SketchRun == 16
SketchCalls == 720
SketchSizes == 1..3
ScriptHash(n) == ((n \div SketchRun) + 1) * policy.capacity
\* the add of hash h ages the sketch: a counter has grown and the additions
\* reach the sample size
Ages(sk, h) ==
    /\ \E q \in {Counters(sk.block_mask, h)[i] : i \in 1..4} : count(sk.table, q) # 15
    /\ sk.additions + 1 >= sk.sample_size
Aged == IF last.op = "new" THEN 0 ELSE last.ret
InitSketch == \E size \in SketchSizes : Start(size)
ScriptAdd ==
    /\ last.op # "reset"
    /\ ops < SketchCalls
    /\ policy' = [policy EXCEPT !.sketch = add(@, ScriptHash(ops))]
    /\ ops' = ops + 1
    /\ last' = [op |-> "add", arg |-> ScriptHash(ops),
                ret |-> IF Ages(policy.sketch, ScriptHash(ops)) THEN 1 ELSE Aged,
                steps |-> 0, pre_keys |-> {}]
    /\ UNCHANGED <<wheel, entries, now, status, filter>>
ResetNow ==
    /\ last.op = "add"
    /\ policy' = [policy EXCEPT !.sketch = reset(@)]
    /\ last' = [op |-> "reset", arg |-> None, ret |-> 1, steps |-> 0, pre_keys |-> {}]
    /\ UNCHANGED <<wheel, entries, now, status, ops, filter>>
NextSketch == ScriptAdd \/ ResetNow
SpecSketch == InitSketch /\ [][NextSketch]_vars


\* Result<()> and bool as numbers: 1 for Ok and true, 0 for Err and false
Result(ok) == IF ok THEN 1 ELSE 0

\* The Bloom filter alone: new(insertions, 0.001), then puts, lookups and direct
\* resets of keys that share bits (1 and 17 under a mask of 15, 1 and 65 under
\* 63) or have a high half.  last.steps counts the puts since the last reset,
\* starting again at 0 with the put that reaches `insertions`; last.pre_keys is
\* the set of their keys, that put's key included.
FilterOps == 5
FilterSizes == 0..4
FilterKeys == {<<0, 0>>, <<0, 1>>, <<0, 17>>, <<0, 65>>, <<1, 1>>, <<3, 2>>}
InitFilter ==
    \E insertions \in FilterSizes :
        /\ policy = NewCore(1).policy
        /\ wheel = NewCore(1).wheel
        /\ entries = NewCore(1).entries
        /\ now = Zero
        /\ status = "ok"
        /\ ops = 0
        /\ last = [op |-> "new", arg |-> insertions, ret |-> None, steps |-> 0, pre_keys |-> {}]
        /\ filter = NewBloomFilter(insertions)
FilterCalled(op, key, ret, puts, put) ==
    /\ ops' = ops + 1
    /\ last' = [op |-> op, arg |-> key, ret |-> ret, steps |-> puts, pre_keys |-> put]
    /\ UNCHANGED <<policy, wheel, entries, now, status>>
\* a put is the one that brings the puts since the last reset to `insertions`
Reaching == last.steps + 1 >= filter.insertions
Put(key) ==
    /\ ops < FilterOps
    /\ filter' = BloomPut(filter, key)
    /\ FilterCalled("put", key, None, IF Reaching THEN 0 ELSE last.steps + 1,
                    IF Reaching THEN {key} ELSE last.pre_keys \cup {key})
Contains(key) ==
    /\ ops < FilterOps
    /\ filter' = filter
    /\ FilterCalled("contains", key, Result(BloomContains(filter, key)), last.steps, last.pre_keys)
ResetFilter ==
    /\ ops < FilterOps
    /\ filter' = BloomReset(filter)
    /\ FilterCalled("reset", None, None, 0, {})
NextFilter ==
    \/ \E key \in FilterKeys : Put(key)
    \/ \E key \in FilterKeys : Contains(key)
    \/ ResetFilter
SpecFilter == InitFilter /\ [][NextFilter]_vars

\* The policy operations on an entry whose region tag or policy index was
\* corrupted: keys 1..FaultCap set on new(FaultCap), key 2 with a TTL of 1 ns,
\* key 1 accessed (window <<FaultCap>>, probation <<.., 3, 2>>, protected <<1>>);
\* then one entry gets no index under any tag, or keeps its index (still the
\* index of its node) under its own tag or an unknown one.
FaultCap == 4
FaultOps == 2
FaultTags == {4, 255}
FaultKeys == 1..FaultCap
FaultBatch == [key \in FaultKeys |-> <<key, Ttl(FALSE, IF key = 2 THEN Ns(1) ELSE Zero)>>]
FaultBase == access(set(NewCore(FaultCap), Zero, FaultBatch).c, Zero, <<1>>)
InitFault ==
    \E key \in FaultKeys : \E id \in 0..3 \cup FaultTags : \E index \in BOOLEAN :
        /\ index => id \in {FaultBase.entries[key].policy_list_id} \cup FaultTags
        /\ policy = FaultBase.policy
        /\ wheel = FaultBase.wheel
        /\ entries = [FaultBase.entries EXCEPT ![key].policy_list_id = id,
                                               ![key].policy_list_index = index]
        /\ now \in {Zero, Ns(1)}
        /\ status = "ok"
        /\ ops = 0
        /\ last = [op |-> "new", arg |-> FaultCap, ret |-> None, steps |-> 0, pre_keys |-> {}]
        /\ filter = NewBloomFilter(1)
FaultPolicy(op, key, r) ==
    /\ policy' = r.policy
    /\ Called(op, key, Result(r.ok), 0, 1)
    /\ UNCHANGED <<wheel, entries, now, status>>
FaultCore(op, key, r) ==
    /\ Becomes(r.c)
    /\ Called(op, key, Result(r.ok), 0, 1)
    /\ UNCHANGED <<now, status>>
TinyLfuRemove(key) == Within(FaultOps) /\ FaultPolicy("TinyLfu::remove", key, PolicyRemove(policy, entries[key], key))
TinyLfuAccess(key) == Within(FaultOps) /\ FaultCore("TinyLfu::access", key, policy_access(Core, key, now))
SlruAccessOf(key) == Within(FaultOps) /\ FaultCore("Slru::access", key, SlruAccess(Core, key))
SlruRemoveOf(key) == Within(FaultOps) /\ FaultPolicy("Slru::remove", key, SlruRemove(policy, entries[key], key))
LruRemoveOf(key) == Within(FaultOps) /\ FaultPolicy("Lru::remove", key, LruRemove(policy, entries[key], key))
NextFault ==
    \/ \E key \in FaultKeys : TinyLfuRemove(key)
    \/ \E key \in FaultKeys : TinyLfuAccess(key)
    \/ \E key \in FaultKeys : SlruAccessOf(key)
    \/ \E key \in FaultKeys : SlruRemoveOf(key)
    \/ \E key \in FaultKeys : LruRemoveOf(key)
SpecFault == InitFault /\ [][NextFault]_vars

\* test_tlfu_adaptive: a policy built by new_sized(50, 100, 80) with hr = 0.2,
\* keys 0..149 set, keys 0..79 accessed; then, for each sampled hit ratio fed,
\* the counters are written (hits of 100 operations), and climb and
\* resize_window are called. AdaptiveOps hit ratios are fed at most.
AdaptiveOps == 4
AdaptiveWindow == 50
AdaptiveMain == 100
AdaptiveProtected == 80
AdaptiveSample == 100
AdaptiveChunk == 25
AdaptiveHits == {8, 10, 20, 40, 60}
\* TinyLfu::new_sized
new_sized(wsize, msize, psize) ==
    [size |-> 0, capacity |-> ListCap(wsize) + ListCap(msize),
     window |-> <<>>, window_cap |-> LruCap(ListCap(wsize)),
     probation |-> <<>>, probation_cap |-> SlruProbationCap(ListCap(msize)),
     protected |-> <<>>, protected_cap |-> Min(ListCap(psize), ListCap(msize)),
     protected_alloc |-> SlruProtectedCap(ListCap(msize)),
     sketch |-> NewSketch(ListCap(wsize) + ListCap(msize)),
     hit_in_sample |-> 0, misses_in_sample |-> 0,
     hr |-> <<0, 1>>, step |-> <<0 - (ListCap(wsize) + ListCap(msize)), 16>>, amount |-> 0]
AdaptiveKeys == AdaptiveWindow + AdaptiveMain
AdaptiveNew ==
    [policy |-> [new_sized(AdaptiveWindow, AdaptiveMain, AdaptiveProtected) EXCEPT !.hr = <<1, 5>>],
     wheel |-> NewTimerWheel(Zero), entries |-> EmptyFn]
AdaptiveBatch(lo) ==
    [i \in 1..Min(AdaptiveChunk, AdaptiveKeys - lo) |-> <<lo + i - 1, Ttl(FALSE, Zero)>>]
AdaptiveList(lo) == [i \in 1..Min(AdaptiveChunk, AdaptiveProtected - lo) |-> lo + i - 1]
RECURSIVE AdaptiveSet(_, _)
AdaptiveSetNext(r, lo) == IF r.status = "ok" THEN AdaptiveSet(r.c, lo + AdaptiveChunk) ELSE r.c
AdaptiveSet(c, lo) ==
    IF lo >= AdaptiveKeys THEN c ELSE AdaptiveSetNext(set(c, Zero, AdaptiveBatch(lo)), lo)
RECURSIVE AdaptiveAccess(_, _)
AdaptiveAccessNext(c, lo) ==
    IF c.policy.size >= 0 THEN AdaptiveAccess(c, lo + AdaptiveChunk) ELSE c
AdaptiveAccess(c, lo) ==
    IF lo >= AdaptiveProtected THEN c
    ELSE AdaptiveAccessNext(access(c, Zero, AdaptiveList(lo)), lo)
AdaptiveEvicted(c) == IF c.policy.size >= 0 THEN evict_entries(c) ELSE evict_entries(c)
AdaptiveAccessed(r) == IF r.status = "ok" THEN AdaptiveAccess(r.c, 0) ELSE r.c
AdaptiveStart == AdaptiveAccessed(AdaptiveEvicted(AdaptiveSet(AdaptiveNew, 0)))
InitAdaptive ==
    /\ policy = AdaptiveStart.policy
    /\ wheel = AdaptiveStart.wheel
    /\ entries = AdaptiveStart.entries
    /\ now = Zero
    /\ status = "ok"
    /\ ops = 0
    /\ last = [op |-> "new", arg |-> AdaptiveKeys, ret |-> None, steps |-> 0, pre_keys |-> {}]
    /\ filter = NewBloomFilter(1)
\* the body of the test's `for hrc in &test.hr_changes` loop
ClimbResize(c, hits) ==
    resize_window([c EXCEPT !.policy = climb([c.policy EXCEPT
                                                  !.hit_in_sample = hits,
                                                  !.misses_in_sample = AdaptiveSample - hits])])
Feed(hits) ==
    /\ Within(AdaptiveOps)
    /\ \E c \in {ClimbResize(Core, hits)} : Becomes(c)
    /\ Called("climb", hits, None, 0, 1)
    /\ UNCHANGED <<now, status>>
NextAdaptive == \E hits \in AdaptiveHits : Feed(hits)
SpecAdaptive == InitAdaptive /\ [][NextAdaptive]_vars

\* ----------------------------------------------------------------- claims
\* key was given a ttl other than -1 somewhere in the batch
GivenTtl(batch, key) == \E i \in DOMAIN batch : batch[i][1] = key /\ batch[i][2] # MinusOne
\* key was given ttl = -1 somewhere in the batch
GivenMinusOne(batch, key) == \E i \in DOMAIN batch : batch[i] = <<key, MinusOne>>
\* the last call returned to its caller
Returned == status = "ok"
\* the nodes of key in the policy lists and in the wheel buckets
InLists(p, key) == key \in KeysOf(p.window) \cup KeysOf(p.probation) \cup KeysOf(p.protected)
InWheel(w, key) == \E idx \in DOMAIN w.buckets : key \in KeysOf(w.buckets[idx])
\* what a caller can see of a cache: keys(), len(), and the region lists in order
ListKeys(list) == [i \in 1..Len(list) |-> list[i].key]
Observable(c) ==
    [keys |-> keys(c), len |-> len(c), window |-> ListKeys(c.policy.window),
     probation |-> ListKeys(c.policy.probation), protected |-> ListKeys(c.policy.protected)]
Twice(key) == <<<<key, Ttl(FALSE, Zero)>>, <<key, Ttl(FALSE, Zero)>>>>
Once(key) == <<<<key, Ttl(FALSE, Zero)>>>>

\* C1: after every completed public operation (set, access, remove, advance,
\* clear, in any order) len() <= capacity.
C1_LenWithinCapacity == Returned => len(Core) <= policy.capacity

\* a set put a new key into a cache that was full and left it full
C1_Witness ==
    /\ last.op = "set" /\ Returned
    /\ Cardinality(last.pre_keys) = policy.capacity
    /\ \E key \in BatchKeys(last.arg) \ last.pre_keys : key \in DOMAIN entries
    /\ len(Core) = policy.capacity

\* C2: a key that a set call evicted (it was in the cache or was inserted by the
\* batch, it is absent after the call, and the batch never gave it ttl = -1) is
\* in the list the call returns; a set that inserts a new key into a full cache
\* returns a non-empty list.
C2_SetReturnsEvicted ==
    (last.op = "set" /\ Returned) =>
        /\ \A key \in (last.pre_keys \cup {k \in Keys : GivenTtl(last.arg, k)})
                          \ DOMAIN entries :
               ~GivenMinusOne(last.arg, key) => key \in last.ret
        /\ (/\ Cardinality(last.pre_keys) = policy.capacity
            /\ \E key \in Keys \ last.pre_keys : last.arg = Once(key)) => last.ret # {}

\* C3: every call to set returns, after any earlier calls (clear among them),
\* and its eviction loop takes at most 3 x capacity pointer steps.
C3_SetTerminates ==
    last.op = "set" => (Returned /\ last.steps <= 3 * policy.capacity)

\* C4: after every public operation
\* len() = window_len + probation_len + protected_len = debug_info().len.
C4_LenIsSumOfLists ==
    Returned =>
        /\ len(Core) = debug_info(Core).window_len + debug_info(Core).probation_len
                       + debug_info(Core).protected_len
        /\ len(Core) = debug_info(Core).len

\* C5: after clear(), len() = 0, keys() is empty and debug_info is (0, 0, 0, 0).
C5_ClearEmptiesAll ==
    last.op = "clear" =>
        /\ len(Core) = 0
        /\ keys(Core) = {}
        /\ debug_info(Core) = [len |-> 0, window_len |-> 0, probation_len |-> 0,
                               protected_len |-> 0]

\* C6: on a fresh cache, a set batch of more distinct keys than the capacity,
\* all with ttl 0, leaves len() = capacity exactly, and so does setting the same
\* batch again after an access of one of its keys.
C6_FillLeavesCapacity ==
    last.op = "set" => (Returned /\ len(Core) = policy.capacity)

\* the batch was set again after the access of a key that the first set had
\* kept, and the cache holds exactly capacity keys
C6_Witness ==
    /\ last.op = "set" /\ ops = 3 /\ Returned
    /\ Len(last.arg) > policy.capacity + 1
    /\ policy.capacity = MaxCap + 1
    /\ policy.protected # <<>>
    /\ len(Core) = policy.capacity

\* the last pair of the batch that names key, 0 when no pair does
LastPair(batch, key) ==
    IF key \in BatchKeys(batch)
    THEN CHOOSE i \in DOMAIN batch :
             batch[i][1] = key /\ \A j \in DOMAIN batch : batch[j][1] = key => j <= i
    ELSE 0
\* the batch holds (key, -1) and, later, (key, t) with t # -1
RemovedThenSet(batch, key) ==
    \E i, j \in DOMAIN batch :
        i < j /\ batch[i] = <<key, MinusOne>> /\ batch[j][1] = key /\ batch[j][2] # MinusOne
IsSetStep == last'.op = "set" /\ ops' # ops /\ status' = "ok"
C7_Step ==
    IsSetStep =>
        \A key \in Keys :
            /\ RemovedThenSet(last'.arg, key) => key \in DOMAIN entries'
            /\ (LastPair(last'.arg, key) # 0
                /\ last'.arg[LastPair(last'.arg, key)][2] = MinusOne) => key \notin DOMAIN entries'
            /\ key \notin BatchKeys(last'.arg) =>
                   /\ key \in DOMAIN entries' => key \in DOMAIN entries
                   /\ key \in DOMAIN entries' => entries'[key].expire = entries[key].expire

\* C7: the pairs of a set batch are applied left to right: (k, -1) and a later
\* (k, t), t # -1, leave k present; a last pair (k, -1) leaves k absent; a key
\* the batch does not name is not created and, if it stays, keeps its expiry.
C7_BatchLeftToRight == [][C7_Step]_vars

Without(list, key) == SelectSeq(list, LAMBDA n : n.key # key)
IsRemoveStep == last'.op = "remove" /\ ops' # ops
C8_Step ==
    IsRemoveStep =>
        LET key == last'.arg
        IN  /\ last'.ret = key <=> key \in DOMAIN entries
            /\ last'.ret \in {key, None}
            /\ key \in DOMAIN entries =>
                   /\ key \notin DOMAIN entries'
                   /\ ~InLists(policy', key)
                   /\ ~InWheel(wheel', key)
                   /\ policy'.size = policy.size - 1
                   /\ entries' = [k \in DOMAIN entries \ {key} |-> entries[k]]
                   /\ policy'.window = Without(policy.window, key)
                   /\ policy'.probation = Without(policy.probation, key)
                   /\ policy'.protected = Without(policy.protected, key)
            /\ key \notin DOMAIN entries =>
                   /\ policy' = policy
                   /\ wheel' = wheel
                   /\ entries' = entries
            /\ (last.op = "set" /\ last.arg = Once(key) /\ last.pre_keys = {}) =>
                   (len(Core') = 0 /\ keys(Core') = {})

\* C8: remove(k) returns k iff k was present; then k is in no policy list and no
\* wheel bucket, the policy size is one less and every other key is untouched;
\* remove of an absent key returns nothing and changes nothing; set [(k,0)] on
\* an empty cache followed by remove(k) leaves len() = 0 and keys() empty.
C8_RemoveExact == [][C8_Step]_vars

\* C9: from any state, set [(k,0), (k,0)] leaves the same keys(), len(), region
\* membership and list order as set [(k,0)].
C9_SetTwiceIsSetOnce ==
    Returned =>
        \A key \in Keys :
            /\ set(Core, now, Twice(key)).status = set(Core, now, Once(key)).status
            /\ Observable(set(Core, now, Twice(key)).c) = Observable(set(Core, now, Once(key)).c)

\* set [(k,0), (k,0)] was called with a new key k on a full cache, evicted
\* another key and kept k
C9_Witness ==
    /\ last.op = "set" /\ Returned
    /\ Cardinality(last.pre_keys) = policy.capacity
    /\ \E key \in Keys \ last.pre_keys :
           last.arg = Twice(key) /\ key \in DOMAIN entries /\ last.pre_keys \ DOMAIN entries # {}

NoTtl == \A key \in DOMAIN entries : entries[key].expire = Zero
IsAdvanceStep == last'.op = "advance" /\ ops' # ops
C10_Step ==
    /\ \A key \in DOMAIN entries' :
           entries'[key].expire = Zero =>
               ~entries'[key].wheel_list_index /\ ~InWheel(wheel', key)
    /\ IsAdvanceStep =>
           /\ \A i \in DOMAIN last'.ret :
                  last'.ret[i] \in DOMAIN entries => entries[last'.ret[i]].expire # Zero
           /\ NoTtl => (last'.ret = <<>> /\ Observable(Core') = Observable(Core))

\* C10: a key whose ttl is 0 is in no wheel bucket and is never returned by
\* advance; advance on a cache in which no key has a TTL returns nothing and
\* leaves keys(), len() and the region lists as they were.
C10_NoTtlNeverExpires == [][C10_Step]_vars

\* advance was called a tick after the keys were set, on a cache that holds
\* keys without TTL only; the wheel moved on and nothing was returned
C10_Witness ==
    /\ last.op = "advance" /\ last.ret = <<>>
    /\ DOMAIN entries # {} /\ NoTtl
    /\ TLe(Ticks(1), now) /\ wheel.nanos = now

\* the keys whose deadline has been reached at time t
Due(e, t) == {key \in DOMAIN e : e[key].expire # Zero /\ TLe(e[key].expire, t)}
RetKeys(ret) == {ret[i] : i \in DOMAIN ret}
C11_Step == IsAdvanceStep => Due(entries, now) \subseteq RetKeys(last'.ret)

\* C11: every advance() performed once the deadline of a key has been reached
\* (a key set with ttl = 1 ns, one nanosecond later) returns that key, however
\* recently the previous advance ran.
C11_AdvanceReturnsDue == [][C11_Step]_vars

\* the nodes of key in the wheel: <<bucket, position>>
Places(w, key) ==
    {pl \in UNION {{idx} \X (1..Len(w.buckets[idx])) : idx \in DOMAIN w.buckets} :
        w.buckets[pl[1]][pl[2]].key = key}
\* key has one node in the wheel, a live one, in the bucket its entry records
ScheduledOnce(w, e, key) ==
    /\ e[key].wheel_list_index
    /\ \E i \in 1..Len(Bucket(w, e[key].wheel_index)) :
           /\ Bucket(w, e[key].wheel_index)[i] = Node(key)
           /\ Places(w, key) = {<<e[key].wheel_index, i>>}
C12_Step ==
    IsAdvanceStep =>
        /\ \A key \in RetKeys(last'.ret) :
               /\ key \in DOMAIN entries
               /\ entries[key].expire # Zero
               /\ TLe(entries[key].expire, now)
        /\ \A key \in DOMAIN entries :
               TLt(now, entries[key].expire) =>
                   /\ key \in DOMAIN entries'
                   /\ entries'[key].expire = entries[key].expire
                   /\ entries'[key].wheel_index \in
                          {entries[key].wheel_index, find_index(wheel', entries[key].expire)}
                   /\ ScheduledOnce(wheel', entries', key)

\* C12: advance never expires early: every key advance returns had
\* 0 < expire <= now; a key whose expire is later than now is not returned, it
\* stays scheduled, in its old bucket or in the bucket find_index names for it
\* once the wheel has moved on.
C12_NoEarlyExpiry == [][C12_Step]_vars

\* advance crossed a level-1 tick: it returned a key that was due and moved a
\* key that was not yet due from its level-1 bucket to a level-0 bucket
C12_Witness ==
    /\ last.op = "advance" /\ Returned /\ last.ret # <<>>
    /\ now = spans[2]
    /\ \E key \in DOMAIN entries :
           /\ entries[key].expire = TAdd(spans[2], spans[1])
           /\ entries[key].wheel_index = <<0, 1>>
           /\ ScheduledOnce(wheel, entries, key)

C13_Step ==
    IsAdvanceStep =>
        /\ \A key \in RetKeys(last'.ret) :
               /\ key \notin keys(Core')
               /\ ~InLists(policy', key)
               /\ ~InWheel(wheel', key)
        /\ len(Core') = len(Core) - Len(last'.ret)
        /\ policy'.size = policy.size - Len(last'.ret)

\* C13: every key advance() returns is gone when the call returns: it is not in
\* keys(), in no region list and in no wheel bucket, and len() and the policy
\* size have each dropped by exactly the number of returned keys.
C13_ExpiredAreRemoved == [][C13_Step]_vars

IsAccessStep == last'.op = "access" /\ ops' # ops
C14_Step ==
    /\ IsAccessStep => keys(Core') = keys(Core)
    /\ IsRemoveStep => keys(Core') = keys(Core) \ {last'.arg}
    /\ IsSetStep => keys(Core') = keys(set(Core, Zero, last'.arg).c)
    /\ IsAdvanceStep => keys(Core') = keys(Core) \ RetKeys(last'.ret)

\* C14: a key whose TTL has elapsed stays in keys() and len() until an advance
\* returns it: access changes no key, remove(k) takes away k only, a set leaves
\* the keys it would leave with the clock at 0 (where no TTL has elapsed), and
\* advance takes away the keys it returns and no other.
C14_ExpiryOnlyThroughAdvance == [][C14_Step]_vars

\* a key whose deadline has passed is still in keys() after the set of another
\* key, the access of the key itself or the remove of another key
C14_Witness ==
    /\ Returned
    /\ \E key \in Due(entries, now) :
           \/ last.op = "set" /\ key \notin BatchKeys(last.arg)
           \/ last.op = "access" /\ last.arg = <<key>>
           \/ last.op = "remove" /\ last.arg # key /\ last.arg \in last.pre_keys

\* the last call was set [(key, ttl)], ttl # -1, on a cache that held key
IsUpdateOf(key) ==
    /\ IsSetStep /\ Len(last'.arg) = 1
    /\ last'.arg[1][1] = key /\ last'.arg[1][2] # MinusOne
    /\ key \in keys(Core)
C15_Step ==
    \A key \in Keys :
        IsUpdateOf(key) =>
            /\ last'.ret = {}
            /\ policy' = policy
            /\ keys(Core') = keys(Core)
            /\ \A k \in keys(Core) \ {key} : entries'[k] = entries[k]
            /\ \A idx \in DOMAIN wheel.buckets \cup DOMAIN wheel'.buckets :
                   Without(Bucket(wheel', idx), key) = Without(Bucket(wheel, idx), key)
            /\ entries'[key].policy_list_id = entries[key].policy_list_id
            /\ entries'[key].policy_list_index = entries[key].policy_list_index
            /\ entries'[key].expire = expire_ns(now, last'.arg[1][2].mag)
            /\ IF last'.arg[1][2].mag = Zero
               THEN /\ Places(wheel', key) = {}
                    /\ ~entries'[key].wheel_list_index
                    /\ entries'[key].wheel_index = <<0, 0>>
               ELSE /\ ScheduledOnce(wheel', entries', key)
                    /\ entries'[key].wheel_index = find_index(wheel, entries'[key].expire)

\* C15: set [(k, ttl)] on a cache that holds k only refreshes the expiry of k:
\* the deadline is now + ttl (none when ttl = 0), the old wheel node of k is
\* gone and k has one node in the bucket find_index names (none when ttl = 0);
\* the policy (regions, list order, size), every other entry and every other
\* wheel node are unchanged and nothing is evicted.
C15_UpdateRefreshesExpiry == [][C15_Step]_vars

\* a key the cache held was set again, after the clock had moved, with a ttl of
\* one level-0 span and has its one wheel node in a bucket other than (0, 0)
C15_Witness ==
    /\ last.op = "set" /\ Returned /\ Len(last.arg) = 1
    /\ last.arg[1][1] \in last.pre_keys
    /\ last.arg[1][2] = Ttl(FALSE, spans[1])
    /\ now # Zero
    /\ entries[last.arg[1][1]].wheel_index # <<0, 0>>
    /\ entries[last.arg[1][1]].expire = TAdd(now, spans[1])
    /\ ScheduledOnce(wheel, entries, last.arg[1][1])

\* the last call was set [(key, t), (key, t')] with t and t' other than -1
IsPairStep(key) ==
    /\ IsSetStep /\ Len(last'.arg) = 2
    /\ last'.arg[1][1] = key /\ last'.arg[2][1] = key
    /\ last'.arg[1][2] # MinusOne /\ last'.arg[2][2] # MinusOne
\* what the second pair does to the cache the first pair left
AfterFirst(first, now2, pair) ==
    IF pair[1] \in keys(first.c) THEN set(first.c, now2, <<pair>>).c ELSE first.c
C16_Original ==
    \A key \in Keys \ keys(Core) :
        (IsPairStep(key) /\ key \in keys(Core')) =>
            entries'[key].expire = expire_ns(now, last'.arg[1][2].mag)
C16_Step ==
    \A key \in Keys :
        IsPairStep(key) =>
            /\ Core' = AfterFirst(set(Core, now, <<last'.arg[1]>>), now, last'.arg[2])
            /\ key \in keys(Core') => entries'[key].expire = expire_ns(now, last'.arg[2][2].mag)

\* C16 as stated: a later pair (k, t') of a set batch leaves the expiration of a
\* key k that an earlier pair of the batch inserted as the earlier pair set it.
C16_LaterPairIgnored == [][C16_Original]_vars

\* C16 amended: a later pair (k, t') is skipped only when k was evicted earlier
\* in the same call (k stays absent); when k is present, the later pair is
\* applied as a set of a present key and the expiration of k is the one the
\* later pair gives.
C16_LaterPairUpdates == [][C16_Step]_vars

\* set [(k, 0), (k, one tick)] inserted k and left it with the deadline of the
\* second pair
C16_Witness ==
    /\ last.op = "set" /\ Returned /\ Len(last.arg) = 2
    /\ last.arg[1][1] = last.arg[2][1]
    /\ last.arg[1][1] \notin last.pre_keys
    /\ last.arg[1][2] = Ttl(FALSE, Zero) /\ last.arg[2][2] # Ttl(FALSE, Zero)
    /\ last.arg[2][2] # MinusOne
    /\ last.arg[1][1] \in keys(Core)
    /\ entries[last.arg[1][1]].expire = TAdd(now, last.arg[2][2].mag)

\* the invariants of a cache: the policy lists hold one node for each key of
\* the map, and nothing else, and the policy size is the number of keys
AllNodes(p) == p.window \o p.probation \o p.protected
Consistent(c) ==
    /\ c.policy.size = len(c)
    /\ Len(AllNodes(c.policy)) = len(c)
    /\ KeysOf(AllNodes(c.policy)) = keys(c)
\* the last call was set [(key, ttl)], ttl # -1, of a key the cache did not hold
IsInsertOf(key) ==
    /\ IsSetStep /\ Len(last'.arg) = 1
    /\ last'.arg[1][1] = key /\ last'.arg[1][2] # MinusOne
    /\ key \notin keys(Core)
C17_Step ==
    \A key \in MidKeys :
        (IsInsertOf(key) /\ Consistent(Core) /\ len(Core) + 1 <= policy.capacity) =>
            /\ keys(Core') = keys(Core) \cup {key}
            /\ last'.ret = {}
            /\ policy'.size = policy.size + 1
            /\ Consistent(Core')

\* C17: on a cache whose invariants hold, a set that inserts a new key and
\* leaves no more keys than the capacity evicts nothing: every key that was
\* there stays, the new key is there, and nothing is returned.
C17_NoEvictionBelowCapacity == [][C17_Step]_vars

\* the insert that filled the cache: capacity keys, each in a region list, after
\* a set of a new key made while the window was full
C17_Witness ==
    /\ last.op = "set" /\ Returned
    /\ Cardinality(last.pre_keys) = policy.capacity - 1
    /\ last.arg[1][1] \notin last.pre_keys
    /\ len(Core) = policy.capacity
    /\ Consistent(Core)
    /\ policy.probation # <<>>

\* C18: after every public operation the window list is no longer than the
\* window capacity and the protected list is no longer than the protected
\* capacity, also right after an access that promotes a probation key.
C18_RegionsWithinCaps ==
    Returned =>
        /\ Len(policy.window) <= policy.window_cap
        /\ Len(policy.protected) <= policy.protected_cap

RegionOf(p, id) ==
    IF id = 1 THEN p.window ELSE IF id = 2 THEN p.probation ELSE p.protected
\* the list holds exactly one node of key, the one the entry of key points at
HoldsOnce(list, key) ==
    /\ Cardinality({i \in 1..Len(list) : list[i].key = key}) = 1
    /\ LivePos(list, key) # 0

\* C19: after every public operation each key of the map has a region tag
\* among window, probation and protected and a list index, the list of that
\* region holds the key exactly once, at that index, no other region list
\* holds it, and no region list holds a key that is not in the map.
C19_ListsMatchEntries ==
    Returned =>
        /\ \A key \in keys(Core) :
               /\ entries[key].policy_list_id \in 1..3
               /\ entries[key].policy_list_index
               /\ \A id \in 1..3 :
                      IF id = entries[key].policy_list_id
                      THEN HoldsOnce(RegionOf(policy, id), key)
                      ELSE key \notin KeysOf(RegionOf(policy, id))
        /\ KeysOf(AllNodes(policy)) \subseteq keys(Core)

\* the wheel and the map agree: a key with a deadline has its one node in the
\* bucket its entry records, a key without one has no node and reset wheel
\* fields, and a key that is not in the map has no node
WheelMatches(c) ==
    /\ \A key \in keys(c) :
           IF c.entries[key].expire # Zero
           THEN ScheduledOnce(c.wheel, c.entries, key)
           ELSE /\ Places(c.wheel, key) = {}
                /\ ~c.entries[key].wheel_list_index
                /\ c.entries[key].wheel_index = <<0, 0>>
    /\ \A key \in WheelKeys \ keys(c) : Places(c.wheel, key) = {}
C20_Step ==
    /\ (IsSetStep \/ IsRemoveStep \/ IsAdvanceStep) => WheelMatches(Core')
    /\ \A key \in keys(Core') :
           (IsSetStep /\ last'.arg[1][1] = key /\ entries'[key].expire # Zero) =>
               entries'[key].wheel_index = find_index(wheel', entries'[key].expire)

\* C20: after every set, remove and advance, each entry with expire > 0 has
\* exactly one wheel node, in the bucket recorded on the entry, and right after
\* the set that scheduled it that bucket is the one find_index names; an entry
\* with expire 0 has no node and reset wheel fields ((0, 0), no list index),
\* and a removed or expired key has no node.
C20_WheelMatchesEntries == [][C20_Step]_vars

\* a set with ttl 0 took a key out of the wheel, after the clock had moved,
\* while another key sits in a level-1 bucket
C20_Witness ==
    /\ last.op = "set" /\ Returned /\ now # Zero
    /\ last.arg[1][1] \in last.pre_keys
    /\ last.arg[1][2] = Ttl(FALSE, Zero)
    /\ last.arg[1][1] \in keys(Core)
    /\ Places(wheel, last.arg[1][1]) = {}
    /\ \E key \in keys(Core) :
           entries[key].wheel_index[1] = 1 /\ ScheduledOnce(wheel, entries, key)

\* the call moves the wheel into a later level-0 tick
Crosses(w, t) == Shr(t, shift[1]) > Shr(w.nanos, shift[1])
NoRepeat(ret) == \A i, j \in DOMAIN ret : ret[i] = ret[j] => i = j
C21_Step ==
    IsAdvanceStep =>
        /\ NoRepeat(last'.ret)
        /\ \A key \in RetKeys(last'.ret) :
               /\ key \in keys(Core) /\ entries[key].wheel_list_index
               /\ key \notin keys(Core')
               /\ Places(wheel', key) = {}
        /\ \A key \in keys(Core) \ RetKeys(last'.ret) :
               entries[key].expire # Zero => ScheduledOnce(wheel', entries', key)
        /\ Crosses(wheel, now) => Due(entries, now) \subseteq RetKeys(last'.ret)

\* C21: over a sequence of advance calls with non-decreasing now every
\* scheduled key is returned by exactly one call: a call returns a key once,
\* a returned key was scheduled and has no node left to be returned again, a
\* key that is not returned keeps its one node through every cascade, and the
\* first call that crosses a level-0 tick with now >= expire returns the key.
C21_ReturnedExactlyOnce == [][C21_Step]_vars

\* an advance returned a key and moved another key, which is not yet due, from
\* level 3 down to level 2, where it has its one node
C21_Witness ==
    /\ last.op = "advance" /\ Returned /\ last.ret # <<>>
    /\ \E key \in keys(Core) :
           /\ key \in DOMAIN last.arg
           /\ last.arg[key] = 3
           /\ entries[key].wheel_index[1] = 2
           /\ ScheduledOnce(wheel, entries, key)

C22_Step ==
    (IsAdvanceStep /\ Crosses(wheel, now)) =>
        /\ RetKeys(last'.ret) = Due(entries, now)
        /\ \A key \in keys(Core) :
               TLt(now, entries[key].expire) =>
                   /\ key \in keys(Core')
                   /\ entries'[key].wheel_index[1] <= entries[key].wheel_index[1]
                   /\ entries'[key].wheel_index # entries[key].wheel_index =>
                          entries'[key].wheel_index = find_index(wheel', entries[key].expire)

LevelsFor(n, e) == {i \in 0..4 : TLt(e, TAdd(n, spans[i + 2]))}
Least(S) == CHOOSE i \in S : \A j \in S : i <= j
Described(n, e) ==
    IF LevelsFor(n, e) = {} THEN <<4, 0>>
    ELSE <<Least(LevelsFor(n, e)),
           Shr(e, shift[Least(LevelsFor(n, e)) + 1]) % buckets[Least(LevelsFor(n, e)) + 1]>>

\* C23: find_index(expire) is (i, (expire >> shift[i]) mod buckets[i]) for the
\* smallest level i of 0..4 with expire - (time of the last advance) <
\* span[i + 1], and (4, 0) when there is none; the slot is a bucket of the level.
C23_FindIndex ==
    last.op = "find_index" =>
        /\ last.ret = Described(wheel.nanos, last.arg)
        /\ last.ret[1] \in 0..4
        /\ last.ret[2] \in 0..(buckets[last.ret[1] + 1] - 1)

\* find_index put a deadline one nanosecond short of a level-2 span away at
\* level 1, in a slot other than 0, on a wheel that had been advanced
C23_Witness ==
    /\ last.op = "find_index"
    /\ wheel.nanos # Zero
    /\ last.arg = TAdd(wheel.nanos, TSatSub(spans[3], Ns(1)))
    /\ last.ret[1] = 1 /\ last.ret[2] # 0

\* the keys of a list beyond its first cap keys, the tail first
Beyond(ks, cap) == [i \in 1..Max(Len(ks) - cap, 0) |-> ks[Len(ks) + 1 - i]]
Backwards(ks) == [i \in 1..Len(ks) |-> ks[Len(ks) + 1 - i]]
\* the window once key is at its front, and the keys moved out of it
Wider(p, key) == <<key>> \o ListKeys(p.window)
Moved(p, key) == Beyond(Wider(p, key), p.window_cap)
\* probation once the keys above the protected capacity and the keys moved
\* out of the window are at its front
Fed(p, key) ==
    Backwards(Moved(p, key)) \o Backwards(Beyond(ListKeys(p.protected), p.protected_cap))
        \o ListKeys(p.probation)
CandidateOf(p, key) ==
    IF Moved(p, key) # <<>> THEN Moved(p, key)[1] ELSE Wider(p, key)[Len(Wider(p, key))]
VictimOf(p, key) == IF Fed(p, key) = <<>> THEN None ELSE Fed(p, key)[Len(Fed(p, key))]
\* the key the claim has evicted, judged with the sketch the call leaves
Loser(p, q, key) ==
    IF CandidateOf(p, key) = VictimOf(p, key) THEN CandidateOf(p, key)
    ELSE IF admit(q, CandidateOf(p, key), VictimOf(p, key)) THEN VictimOf(p, key)
    ELSE CandidateOf(p, key)
IsOverflowOf(key) ==
    /\ IsInsertOf(key)
    /\ policy.size = policy.capacity
    /\ VictimOf(policy, key) # None
C24_Step ==
    \A key \in MidKeys :
        IsOverflowOf(key) =>
            /\ keys(Core') = (keys(Core) \cup {key}) \ {Loser(policy, policy', key)}
            /\ Loser(policy, policy', key) \in keys(Core) \cup {key}
            /\ policy'.size = policy.capacity
            /\ ListKeys(policy'.probation)
                   = SelectSeq(Fed(policy, key), LAMBDA k : k # Loser(policy, policy', key))
            /\ ListKeys(policy'.window)
                   = SelectSeq(SubSeq(Wider(policy, key), 1,
                                      Min(policy.window_cap, Len(Wider(policy, key)))),
                               LAMBDA k : k # Loser(policy, policy', key))

\* C24: when the insert of a new key makes size = capacity + 1, the window
\* keys beyond the window capacity are moved to the probation front, tail
\* first; the candidate is the first key moved (the window tail when none
\* was), the victim is the probation tail; the victim is evicted iff
\* admit(candidate, victim), otherwise the candidate, and a key that is both
\* is evicted; exactly one key leaves the cache.
C24_OverflowEvictsOne == [][C24_Step]_vars

\* the claim's description of admit, on the estimates of the sketch
Low7(x) == x % 128
AdmitDescribed(p, candidate, victim) ==
    \/ estimate(p.sketch, candidate) > estimate(p.sketch, victim)
    \/ /\ estimate(p.sketch, candidate) <= estimate(p.sketch, victim)
       /\ estimate(p.sketch, candidate) > 6
       /\ Low7(candidate + victim) = 0
\* C25: admit(candidate, victim) is true exactly when the candidate's estimate
\* is above the victim's, or it is not above it, is above 6 and the low 7 bits of
\* candidate + victim are all 0; a candidate whose estimate is at most 6 and not
\* above the victim's is never admitted.
C25_Admit ==
    last.op = "admit" =>
        /\ last.ret = AdmitDescribed(policy, last.arg[1], last.arg[2])
        /\ (estimate(policy.sketch, last.arg[1]) <= 6
              /\ estimate(policy.sketch, last.arg[1]) <= estimate(policy.sketch, last.arg[2]))
           => last.ret = FALSE
\* admit let in a candidate that is not more frequent than the victim
C25_Witness ==
    /\ last.op = "admit"
    /\ last.ret = TRUE
    /\ estimate(policy.sketch, last.arg[1]) = 7
    /\ estimate(policy.sketch, last.arg[2]) = 8

\* the keys of a list without key, and with key moved to the front
Others(ks, key) == SelectSeq(ks, LAMBDA k : k # key)
Fronted(ks, key) == <<key>> \o Others(ks, key)
Unexpired(e, t) == e.expire = Zero \/ TLt(t, e.expire)
\* the step is access([key]) on a cache that holds key
IsAccessOf(key) == IsAccessStep /\ last'.arg = <<key>> /\ key \in keys(Core)
TagsBut(e, key) == [k \in DOMAIN e \ {key} |-> e[k].policy_list_id]
C26_Step ==
    \A key \in DOMAIN entries :
        (IsAccessOf(key) /\ Unexpired(entries[key], now)) =>
            /\ policy'.size = policy.size
            /\ keys(Core') = keys(Core)
            /\ TagsBut(entries', key) = TagsBut(entries, key)
            /\ entries[key].policy_list_id = 1 =>
                   /\ ListKeys(policy'.window) = Fronted(ListKeys(policy.window), key)
                   /\ ListKeys(policy'.probation) = ListKeys(policy.probation)
                   /\ ListKeys(policy'.protected) = ListKeys(policy.protected)
                   /\ entries'[key].policy_list_id = 1
            /\ entries[key].policy_list_id = 2 =>
                   /\ ListKeys(policy'.window) = ListKeys(policy.window)
                   /\ ListKeys(policy'.probation) = Others(ListKeys(policy.probation), key)
                   /\ ListKeys(policy'.protected) = <<key>> \o ListKeys(policy.protected)
                   /\ entries'[key].policy_list_id = 3
            /\ entries[key].policy_list_id = 3 =>
                   /\ ListKeys(policy'.window) = ListKeys(policy.window)
                   /\ ListKeys(policy'.probation) = ListKeys(policy.probation)
                   /\ ListKeys(policy'.protected) = Fronted(ListKeys(policy.protected), key)
                   /\ entries'[key].policy_list_id = 3
            /\ entries[key].policy_list_id \in 1..3

AllExpired(list) ==
    \A i \in DOMAIN list : list[i] \in keys(Core) /\ ~Unexpired(entries[list[i]], now)
AllAbsent(list) == \A i \in DOMAIN list : list[i] \notin keys(Core)
SameLists ==
    /\ policy'.window = policy.window
    /\ policy'.probation = policy.probation
    /\ policy'.protected = policy.protected
SameTags ==
    /\ keys(Core') = keys(Core)
    /\ \A key \in keys(Core) : entries'[key].policy_list_id = entries[key].policy_list_id
OnlySketch ==
    /\ entries' = entries
    /\ wheel' = wheel
    /\ policy' = [policy EXCEPT !.sketch = policy'.sketch]
\* some access of the call starts with the adaptation: expired keys count as
\* hits, keys that are not in the cache do not count
Adapts(list) ==
    policy.hit_in_sample + policy.misses_in_sample
        + (IF AllAbsent(list) THEN 0 ELSE Len(list) - 1) > policy.sketch.sample_size
C27_Original ==
    IsAccessStep =>
        /\ AllExpired(last'.arg) => SameLists /\ SameTags
        /\ AllAbsent(last'.arg) => SameLists /\ OnlySketch
C27_Amended ==
    (IsAccessStep /\ ~Adapts(last'.arg)) =>
        /\ AllExpired(last'.arg) => SameLists /\ SameTags
        /\ AllAbsent(last'.arg) => SameLists /\ OnlySketch
\* C27 as stated: an access of expired keys changes no region list and no region
\* tag, and an access of keys that are not in the cache changes nothing but the
\* sketch.
C27_ExpiredAccessChangesNothing == [][C27_Original]_vars
\* C27: as above, for an access that does not start with the adaptation (climb
\* and resize_window run when hit_in_sample + misses_in_sample has passed the
\* sample size).
C27_QuietAccessChangesNothing == [][C27_Amended]_vars
\* a single expired key of the cache was accessed and counted as a hit
C27_Witness ==
    /\ last.op = "access"
    /\ Len(last.arg) = 1
    /\ last.arg[1] \in Due(entries, now)
    /\ policy.hit_in_sample > 0
    /\ Len(policy.probation) > 1

\* the capacity of the main region: the maxsize the Slru was built with, kept
\* as the capacity of its probation list
MainCap(p) == p.probation_cap
\* C28: window.cap + main.cap equals the cache capacity, at construction and
\* after every operation, adaptations included.
C28_CapsSumToCapacity == policy.window_cap + MainCap(policy) = policy.capacity

TradedCaps(p) == p.protected_cap + p.window_cap
C29_Step == TradedCaps(policy') = TradedCaps(policy)
\* C29: protected.cap + window.cap is the same after every resize_window as
\* before it (no other code changes either capacity, so the sum is the same
\* after every step).
C29_ResizerTradesCapacity == [][C29_Step]_vars

\* the cache as it is before the j-th key of the call the step makes
BeforeKey(j) ==
    IF last'.op = "access" THEN access(Core, now, SubSeq(last'.arg, 1, j - 1))
    ELSE set(Core, now, SubSeq(last'.arg, 1, j - 1)).c
\* the access or set of a key on this policy starts with the adaptation
Adapting(p) == p.hit_in_sample + p.misses_in_sample > p.sketch.sample_size
\* the clamp of the amount as the claim states it, on the policy p that climb
\* was called on and the policy q that it left
Clamped(p, q) ==
    /\ q.amount > 0 => q.amount <= Len(p.protected)
    /\ q.amount < 0 => 0 - q.amount <= p.window_cap - 1
C30_Step ==
    last'.op \in {"access", "set"} =>
        \A j \in 1..Len(last'.arg) :
            Adapting(BeforeKey(j).policy) =>
                /\ Clamped(BeforeKey(j).policy, climb(BeforeKey(j).policy))
                /\ Adapt(BeforeKey(j)).policy.window_cap >= 1
                /\ Adapt(BeforeKey(j)).policy.protected_cap
                       >= BeforeKey(j).policy.protected_cap
                              - Max(climb(BeforeKey(j).policy).amount, 0)
\* C30: whenever an access or a set starts with the adaptation, the amount that
\* climb leaves is at most |protected| when positive and at least
\* -(window.cap - 1) when negative, and after resize_window the window capacity
\* is at least 1 and the protected capacity has lost no more than the amount.
C30_ClimbClampsAmount == [][C30_Step]_vars

\* the last n keys of a list of keys, and the list without them
LastKeys(ks, n) == SubSeq(ks, Len(ks) + 1 - Min(n, Len(ks)), Len(ks))
ButLast(ks, n) == SubSeq(ks, 1, Len(ks) - Min(n, Len(ks)))
\* the amount climb gives on policy p once hits of AdaptiveSample operations
\* were hits
AmountFor(p, hits) ==
    climb([p EXCEPT !.hit_in_sample = hits, !.misses_in_sample = AdaptiveSample - hits]).amount
\* the region lists the claim describes after climb + resize_window with the
\* amount a: protected keys beyond the new protected capacity go to the
\* probation front, then a keys go from the main tail to the window front
\* (a > 0) or -a keys from the window tail to the probation front (a < 0)
Overflow(p, a) == Max(Len(p.protected) - Max(p.protected_cap - a, 1), 0)
Demoted(p, a) == LastKeys(ListKeys(p.protected), Overflow(p, a)) \o ListKeys(p.probation)
Kept(p, a) == ButLast(ListKeys(p.protected), Overflow(p, a))
MovedLists(p, a) ==
    IF a > 0
    THEN [window |-> LastKeys(Kept(p, a) \o Demoted(p, a), a) \o ListKeys(p.window),
          probation |-> ButLast(Demoted(p, a), a),
          protected |-> ButLast(Kept(p, a), a - Min(a, Len(Demoted(p, a))))]
    ELSE [window |-> ButLast(ListKeys(p.window), 0 - a),
          probation |-> LastKeys(ListKeys(p.window), 0 - a) \o Demoted(p, a),
          protected |-> Kept(p, a)]
IsFeedStep == last'.op = "climb" /\ ops' # ops
C31_Step ==
    IsFeedStep =>
        /\ keys(Core') = keys(Core)
        /\ entries' = [key \in DOMAIN entries |->
                          [entries[key] EXCEPT !.policy_list_id = entries'[key].policy_list_id]]
        /\ policy'.size = policy.size
        /\ ListKeys(policy'.window) = MovedLists(policy, AmountFor(policy, last'.arg)).window
        /\ ListKeys(policy'.probation) = MovedLists(policy, AmountFor(policy, last'.arg)).probation
        /\ ListKeys(policy'.protected) = MovedLists(policy, AmountFor(policy, last'.arg)).protected
        /\ Abs(AmountFor(policy, last'.arg)) <= Len(policy.window) + Len(policy.probation)
\* C31: climb followed by resize_window adds no key, removes none and leaves
\* the policy size; it demotes the protected tail keys beyond the new protected
\* capacity to the probation front, then moves a keys from the probation tail
\* to the window front (a > 0) or -a keys from the window tail to the probation
\* front (a < 0).
C31_ResizeOnlyMoves == [][C31_Step]_vars
\* the test's case hr_changes = [0.1]: 88-80>149-100 : 8-0>99-89 : 79-9
C31_Witness ==
    /\ last.op = "climb" /\ last.arg = 10 /\ ops = 1
    /\ ListKeys(policy.window) = [i \in 1..59 |-> IF i <= 9 THEN 89 - i ELSE 159 - i]
    /\ ListKeys(policy.probation) = [i \in 1..20 |-> IF i <= 9 THEN 9 - i ELSE 109 - i]
    /\ ListKeys(policy.protected) = [i \in 1..71 |-> 80 - i]

\* the policy operations and the entry they are applied to
FaultOpNames == {"TinyLfu::remove", "TinyLfu::access", "Slru::access", "Slru::remove", "Lru::remove"}
IsPolicyOp == last'.op \in FaultOpNames /\ ops' # ops
Target == entries[last'.arg]
\* a region tag with no policy index, or a tag outside 0..3
Unindexed(e) == e.policy_list_id \in 1..3 /\ ~e.policy_list_index
UnknownTag(e) == e.policy_list_id \notin 0..3
Untouched ==
    /\ policy'.window = policy.window
    /\ policy'.probation = policy.probation
    /\ policy'.protected = policy.protected
    /\ policy'.size = policy.size
Refused == last'.ret = 0 /\ Untouched
HasExpired(e) == e.expire # Zero /\ TLe(e.expire, now)
C32_Step ==
    (IsPolicyOp /\ (Unindexed(Target) \/ UnknownTag(Target))) => Refused
\* C32: a policy operation (TinyLfu::remove, TinyLfu::access, Slru::access,
\* Slru::remove, Lru::remove) on an entry that has a region tag 1..3 but no
\* policy index, or a tag outside 0..3, returns an error and leaves the region
\* lists and the policy size unchanged.
C32_FaultyEntryRefused == [][C32_Step]_vars
C32_Amended ==
    IsPolicyOp =>
        /\ (last'.op \in {"TinyLfu::remove", "Slru::access", "Slru::remove"}
              /\ (Unindexed(Target) \/ UnknownTag(Target))) => Refused
        /\ (last'.op = "TinyLfu::access" /\ ~Adapting(policy)
              /\ (Unindexed(Target) \/ UnknownTag(Target)))
              => /\ Untouched
                 /\ last'.ret = (IF HasExpired(Target) THEN 1 ELSE 0)
        /\ last'.op = "Lru::remove"
              => /\ last'.ret = (IF Target.policy_list_index THEN 1 ELSE 0)
                 /\ ~Target.policy_list_index => Untouched
                 /\ Target.policy_list_index
                      => /\ ListKeys(policy'.window)
                              = SelectSeq(ListKeys(policy.window), LAMBDA k : k # last'.arg)
                         /\ policy'.probation = policy.probation
                         /\ policy'.protected = policy.protected
                         /\ policy'.size = policy.size
\* C32 (amended): TinyLfu::remove, Slru::access and Slru::remove refuse such an
\* entry; TinyLfu::access refuses it unless the entry has expired, in which case
\* it returns Ok, in both cases without touching the lists; Lru::remove never
\* reads the tag: it refuses exactly the entries without index and otherwise
\* unlinks the key from the window and returns Ok.
C32_FaultyEntryRefusedOnDispatch == [][C32_Amended]_vars
\* TinyLfu::remove has refused an entry with a region tag and no index
C32_Witness ==
    /\ last.op = "TinyLfu::remove" /\ last.ret = 0
    /\ Unindexed(entries[last.arg])
    /\ policy.size = FaultCap

\* the scripted hashes, and the number of add(h) calls among the first n adds
ScriptHashes == {k * policy.capacity : k \in 1..((SketchCalls \div SketchRun) + 1)}
CallsOf(h, n) == Max(0, Min(SketchRun, n - SketchRun * ((h \div policy.capacity) - 1)))
\* the four counters of hash h, and a counter after add(h) without aging
Four(sk, h) == {Counters(sk.block_mask, h)[i] : i \in 1..4}
Incremented(sk, h, q) ==
    IF q \in Four(sk, h) /\ count(sk.table, q) < 15 THEN count(sk.table, q) + 1
    ELSE count(sk.table, q)
LeastOf(S) == CHOOSE m \in S : \A n \in S : m <= n
IsAdd == last'.op = "add" /\ ops' # ops
C33_Step ==
    IsAdd =>
        /\ \A q \in DOMAIN policy'.sketch.table : policy'.sketch.table[q] \in 0..15
        /\ Cardinality(Four(policy.sketch, last'.arg)) = 4
        /\ ~Ages(policy.sketch, last'.arg)
             => \A q \in DOMAIN policy'.sketch.table \cup DOMAIN policy.sketch.table :
                    count(policy'.sketch.table, q) = Incremented(policy.sketch, last'.arg, q)
        /\ estimate(policy'.sketch, last'.arg)
             = LeastOf({count(policy'.sketch.table, q) : q \in Four(policy.sketch, last'.arg)})
        /\ last'.ret = 0
             => \A h \in ScriptHashes :
                    estimate(policy'.sketch, h) >= Min(15, CallsOf(h, ops'))
\* C33: every 4-bit counter stays in 0..15: an add leaves a counter at 15 as
\* it is and changes no counter but the four of its hash, each by one;
\* estimate(h) is the least of the four counters add(h) increments; and until
\* an aging has run estimate(h) >= min(15, number of add(h) calls so far).
C33_CountersBounded == [][C33_Step]_vars
\* the 16th add of the first hash, on four counters at 15
C33_Witness ==
    /\ last.op = "add" /\ last.ret = 0 /\ ops = SketchRun
    /\ \A q \in Four(policy.sketch, last.arg) : count(policy.sketch.table, q) = 15
    /\ policy.sketch.additions = 15

OddCounters(table) == Cardinality({q \in DOMAIN table : table[q] % 2 = 1})
\* the table of sketch sk after the increments of add(h)
Grown(sk, h) ==
    [q \in DOMAIN sk.table \cup Four(sk, h) |-> Incremented(sk, h, q)]
EstimateOn(sk, table, h) == LeastOf({count(table, q) : q \in Four(sk, h)})
\* table `after` is table `before` aged, with `additions` counted before
EstimatePairs(before, after) ==
    {<<EstimateOn(after, before, h), estimate(after, h)>> : h \in ScriptHashes}
AgedFrom(before, additions, after) ==
    /\ \A q \in DOMAIN before \cup DOMAIN after.table :
           count(after.table, q) = count(before, q) \div 2
    /\ \E pairs \in {EstimatePairs(before, after)} :
           /\ \A x \in pairs : x[2] = x[1] \div 2
           /\ \A x \in pairs : \A y \in pairs : x[1] <= y[1] => x[2] <= y[2]
    /\ after.additions = Max(additions - (OddCounters(before) \div 4), 0) \div 2
C34_Step ==
    /\ last'.op = "reset"
         => AgedFrom(policy.sketch.table, policy.sketch.additions, policy'.sketch)
    /\ IsAdd =>
         /\ Ages(policy.sketch, last'.arg)
              <=> (policy.sketch.additions + 1 >= policy.sketch.sample_size
                     /\ Grown(policy.sketch, last'.arg) # policy.sketch.table)
         /\ Ages(policy.sketch, last'.arg)
              => AgedFrom(Grown(policy.sketch, last'.arg), policy.sketch.additions + 1,
                          policy'.sketch)
         /\ ~Ages(policy.sketch, last'.arg) =>
              /\ policy'.sketch.additions < policy'.sketch.sample_size
              /\ \A q \in DOMAIN policy.sketch.table :
                     count(policy'.sketch.table, q) >= policy.sketch.table[q]
\* C34: reset, which add runs when the additions reach the sample size,
\* replaces every counter c by floor(c / 2): estimate(h) becomes
\* floor(estimate(h) / 2) for every hash, the order of two estimates is never
\* inverted, and additions becomes (additions - (odd counters >> 2)) >> 1.
C34_ResetHalves == [][C34_Step]_vars
\* an add has aged the sketch: the first hash fell from 15 to 7
C34_Witness ==
    /\ last.op = "add" /\ last.ret = 1
    /\ policy.sketch.additions < policy.sketch.sample_size \div 2
    /\ policy.sketch.additions >= (policy.sketch.sample_size \div 2) - 40
    /\ estimate(policy.sketch, policy.capacity) = 7

\* the bits a put of the key sets
SliceBits(f, key) == {HashIndex(f, key, i) : i \in 0..(f.slice_count - 1)}
C35_Step ==
    /\ last'.op = "put" =>
         /\ BloomContains(filter', last'.arg)
         /\ (filter'.additions = 0) <=> Reaching
         /\ Reaching => filter'.bits = SliceBits(filter, last'.arg)
         /\ ~Reaching =>
              /\ filter'.additions = filter.additions + 1
              /\ filter.bits \subseteq filter'.bits
         /\ \A key \in last'.pre_keys : BloomContains(filter', key)
    /\ last'.op = "contains" =>
         /\ last'.arg \in last.pre_keys => last'.ret = 1
         /\ filter.bits = {} => last'.ret = 0
         /\ filter' = filter
    /\ last'.op = "reset" => filter'.bits = {} /\ filter'.additions = 0
    /\ filter'.additions < filter'.insertions
FreshBatch(batch) ==
    /\ \A i \in DOMAIN batch : \A j \in DOMAIN batch : batch[i][1] = batch[j][1] => i = j
    /\ \A i \in DOMAIN batch : batch[i][2] # MinusOne
    /\ Len(batch) <= policy.capacity
C36_Step ==
    (last.op = "clear" /\ last'.op = "set" /\ ops' # ops /\ FreshBatch(last'.arg)) =>
        /\ status' = "ok"
        /\ keys(Core') = BatchKeys(last'.arg)
        /\ len(Core') = Len(last'.arg)
\* C36: after clear() the cache behaves like a new cache of the same capacity:
\* a set of up to capacity distinct new keys right after clear() keeps every
\* one of them (len() is their number, none is evicted) and each is present
\* when set returns.
C36_ClearedLikeNew == [][C36_Step]_vars

\* a returned set of one pair (k, t), t # -1, on a cache whose window capacity
\* is the one it was constructed with
IsPlainSet ==
    /\ IsSetStep
    /\ Len(last'.arg) = 1
    /\ last'.arg[1][2] # MinusOne
    /\ policy.window_cap = LruCap(IF policy.capacity \div 100 = 0 THEN 1 ELSE policy.capacity \div 100)
C37_Step ==
    IsPlainSet =>
        /\ last'.arg[1][1] \in keys(Core')
        /\ Cardinality(keys(Core) \ keys(Core')) <= 1
        /\ keys(Core') \subseteq keys(Core) \cup {last'.arg[1][1]}
\* C37: a newly inserted key survives its own insertion: when set [(k, t)] with
\* t # -1 returns on a cache that was never cleared and whose window capacity
\* the resizer has not changed, k is in keys(), and the key evicted to make
\* room, if any, is another key.
C37_NewKeySurvives == [][C37_Step]_vars
\* the set of a new key has evicted a key that was there before
C37_Witness ==
    /\ last.op = "set" /\ Returned
    /\ Len(last.arg) = 1
    /\ last.arg[1][1] \in keys(Core) \ last.pre_keys
    /\ last.pre_keys \ keys(Core) # {}
    /\ len(Core) = policy.capacity

\* the keys that have a node in some wheel bucket
WheelHeld(w) == UNION {KeysOf(w.buckets[idx]) : idx \in DOMAIN w.buckets}
\* every key of the wheel is a key of the map with a deadline and one node
NoDeadKey(c) ==
    \A key \in WheelHeld(c.wheel) :
        /\ key \in keys(c)
        /\ c.entries[key].expire # Zero
        /\ Cardinality(Places(c.wheel, key)) = 1
IsPublicStep == ops' # ops /\ status' = "ok"
C38_Step ==
    IsPublicStep =>
        /\ NoDeadKey(Core')
        /\ \A key \in keys(Core) \ keys(Core') : Places(wheel', key) = {}
        /\ IsAdvanceStep =>
               /\ RetKeys(last'.ret) \subseteq keys(Core) \cap WheelHeld(wheel)
               /\ Cardinality(RetKeys(last'.ret)) = Len(last'.ret)
\* C38: the timer wheel never holds a dead key: after every public operation
\* every key in a wheel bucket is in the entries map with expire > 0 and has one
\* node in one bucket; a key that was removed, evicted, expired or cleared has
\* no node left, and advance returns only keys the map and the wheel held.
C38_WheelHoldsNoDeadKey == [][C38_Step]_vars
\* a set on the full cache evicted a key that had a deadline, and its node is
\* gone while the new key is scheduled
C38_Witness ==
    /\ last.op = "set" /\ Returned
    /\ \E key \in last.pre_keys \ keys(Core) : Places(wheel, key) = {}
    /\ WheelHeld(wheel) # {}
    /\ len(Core) = policy.capacity
    /\ NoDeadKey(Core)

C39_Step ==
    IsAccessStep =>
        /\ keys(Core') = keys(Core)
        /\ len(Core') = len(Core)
        /\ policy'.size = policy.size
\* C39: access never changes the membership of the cache: for any list of
\* keys, present or not, keys() and len() are the same before and after the
\* access and the policy size is unchanged, also when the access runs climb
\* and resize_window.
C39_AccessKeepsMembership == [][C39_Step]_vars
\* an access call of ClimbRun keys has run the adaptation: the sample counters
\* started again inside the call and the step is no longer the initial one
C39_Witness ==
    /\ last.op = "access" /\ Len(last.arg) = ClimbRun
    /\ policy.hit_in_sample + policy.misses_in_sample < ClimbRun
    /\ policy.step # NewTinyLfu(ClimbCap).step
    /\ policy.window_cap > 1
    /\ len(Core) = ClimbCap

\* the policy size is the sum of the lengths of its lists
SizeIsSum(p) == p.size = Len(p.window) + Len(p.probation) + Len(p.protected)
\* the protected keys that demote_from_protected moves to probation before the
\* eviction loop starts: the tail beyond the protected capacity
Demotable(p) ==
    {LastKeys(ListKeys(p.protected), Max(Len(p.protected) - p.protected_cap, 0))[i] :
        i \in 1..Max(Len(p.protected) - p.protected_cap, 0)}
\* the keys that are in protected when the eviction loop starts
Shielded(c) ==
    {key \in keys(c) : c.entries[key].policy_list_id = 3} \ Demotable(c.policy)
C40_Step ==
    (IsPlainSet /\ SizeIsSum(policy) /\ ~Adapting(policy)) =>
        /\ (keys(Core) \ keys(Core')) \cap Shielded(Core) = {}
        /\ \A key \in keys(Core) \ keys(Core') :
               entries[key].policy_list_id \in {1, 2} \/ key \in Demotable(policy)
        /\ Shielded(Core) \subseteq {key \in keys(Core') : entries'[key].policy_list_id = 3}
\* C40: protected keys are shielded from eviction: in a set on a cache whose
\* size is the sum of its list lengths the evicted key is a window or probation
\* key, possibly one that demote_from_protected has just moved to probation;
\* a key that is in protected when the eviction loop starts is not evicted.
C40_ProtectedShielded == [][C40_Step]_vars
====
